---- MODULE Spec2Model ----
(***************************************************************************)
(* TLA+ model of wdb_backup's restore side:                                *)
(*   - the pg_dump TOC codec and identity rewriter                         *)
(*     (src/src/restore_dialog/toc.rs),                                    *)
(*   - the restore pipeline with role provisioning and rollback            *)
(*     (src/src/restore_dialog/dialog.rs).                                 *)
(*                                                                         *)
(* Bytes are the integers 0..255, a Vec<u8> is a sequence of bytes, an     *)
(* Option<Vec<u8>> is a record [some, bytes].  A Rust String is the        *)
(* sequence of its UTF-8 bytes.  A u32 is held as its four little-endian   *)
(* bytes, an i32 as an integer in I32Min..I32Max.                          *)
(*                                                                         *)
(* Three specifications share the variables; each leaves the variables of  *)
(* the other two at their idle values:                                     *)
(*   SpecInt      write_int / read_int on single values                    *)
(*   SpecToc      rewrite_toc's streaming pass over a TOC byte stream      *)
(*   SpecRestore  RestoreDialog::run_restore against a role catalogue      *)
(***************************************************************************)
EXTENDS Integers, Sequences, FiniteSets, TLC

VARIABLES
    \* --- the build ------------------------------------------------------
    overflow_checks, \* TRUE: arithmetic overflow panics (debug profile);
                     \* FALSE: it wraps (release profile)
    \* --- write_int / read_int on one value (SpecInt) ----------------------
    ipc,             \* "idle" | "start" | "written" | "read" | "panic"
    iv,              \* the i32 handed to write_int
    ibuf,            \* the 5 bytes write_int wrote
    ires,            \* the i32 read_int returned
    ioverflow,       \* an i32 negation overflowed (and wrapped) on the way
    \* --- rewrite_toc (SpecToc) -------------------------------------------
    toc_in,          \* the TOC handed in, as [header, entries] (history)
    toc_src,         \* the bytes of toc.dat
    dbname,          \* rewrite_toc's dbname argument: the new name
    tpc,             \* "idle" | "header" | "count" | "entries" | "tables"
                     \* | "rename_orig" | "rename_new" | "done"
    toc_res,         \* "running" | "ok" | "err" | "panic"
    toc_err,         \* the io::Error's message when toc_res = "err"
    rpos,            \* the reader's position in toc_src (1-based)
    toc_dest,        \* the bytes written to toc_rewritten.dat
    toc_count,       \* the entry count read after the header
    idx,             \* loop iterations completed
    orig_dbname,     \* the original name found so far ("" = not found)
    map,             \* tag -> data file name, as a set of pairs
    last_in,         \* the entry the last iteration read (history)
    last_out,        \* the entry the last iteration wrote (history)
    last_orig,       \* orig_dbname as the last iteration's modify saw it
    files,           \* the directory: path -> None | Some(bytes on disk)
    files0,          \* the directory when rewrite_toc was called (history)
    tbl_i,           \* rewrite_dbname_in_tables: tables rewritten so far
    \* --- RestoreDialog::run_restore (SpecRestore) -------------------------
    rpc,             \* the worker's position in run_restore
    dest_db_name,    \* ra.dest_db_name
    db_list,         \* the names in sys.babelfish_sysdatabases
    pg_roles,        \* the role names in pg_catalog.pg_roles
    pre_roles,       \* pg_roles when the run started (history)
    granted,         \* the GRANT statements executed, by number 1..4
    role_i,          \* restore_global_data: roles of the loop handled so far
    res,             \* restore_global_data's Vec of the role names it created
    roles,           \* run_restore's `roles`: what restore_global_data returned
    drop_i,          \* drop_created_roles: elements of the loop handled so far
    drop_issued,     \* the roles a DROP ROLE was sent for (history)
    dropped,         \* the roles a DROP ROLE removed (history)
    created,         \* the roles a CREATE ROLE of this run made (history)
    dir,             \* the temp directory: "none" | "partial" (left by a
                     \* failed extraction) | "present" | "removed"
    rewritten,       \* rewrite_toc was called on the directory
    rewrite_toc,     \* "no" | "ok" | "err": rewrite_toc's outcome
    remove_dir_all,  \* "no" | "ok" | "err": the outcome of removing the directory
    pg_restore,      \* "no" | "ok" | "err": run_pg_restore's outcome
    pg_restore_err,  \* run_pg_restore's error, kept while the roles are dropped
    result,          \* RestoreResult: [done, error] (error "" = success)
    progress,        \* the lines sent to the progress sink, in order
    \* --- the application's process and the tools it spawns ---------------
    password,        \* pg_conn_config.password of the application window
    env,             \* PGPASSWORD in the environment of the application's
                     \* own process: [set, value]
    child,           \* the last process spawned: [program, by, PGPASSWORD]
    nruns,           \* the runs made so far
    \* --- zip_directory on single calls ----------------------------------
    zpc,             \* "idle" | "call" | "done"
    src_dir,         \* the tree at src_dir: [is_dir, walk]
    comp_level,      \* the u8 comp_level
    dst_file,        \* the file at dst_file: an archive or NoArchive
    dst_file0,       \* the file at dst_file before the call (history)
    zip_result,      \* "none" | "ok" | "err" | "panic"
    \* --- BackupDialog's worker thread: run_backup ------------------------
    bpc,             \* "idle" | "prepare" | "dump" | "zip" | "returned" | "done"
                     \* | "panicked"
    dest_filename,   \* pargs.dest_filename
    dest_dir,        \* run_backup's dest_dir (a path), <<>> before it is set
    bfilename,       \* run_backup's filename, <<>> before it is set
    bdirs,           \* the directories of parent_dir: name -> tree
    bfiles,          \* the files of parent_dir: name -> archive
    bfiles0,         \* bfiles when the run began (history)
    bsent,           \* the lines sent to the progress sink, in order
    bresult,         \* BackupResult: [done, error]
    pg_dump,         \* "no" | "ok" | "spawn_err" | "exit_err": run_command's outcome
    zip_st,          \* "no" | "ok" | "err" | "panic": zip_directory's outcome
    complete_sent,   \* complete_sender.send() calls of this run
    brun,            \* the number of this run
    used_dirs,       \* the dest_dir of the earlier runs (history)
    \* --- a dialog (BackupDialog, RestoreDialog): worker and event loop ---
    wpc,             \* the worker: "idle" | "run" | "sleep" | "ended" | "panicked"
    wres,            \* the pipeline's result: "none" | "ok" | "err"
    nsent,           \* progress values the worker sent: the values 1..nsent
    now,             \* the time, ms
    skew,            \* SystemTime minus the time, ms (the system clock can be set)
    start,           \* the worker's start
    ret_at,          \* when the pipeline returned, -1 before (history)
    sent_at,         \* when complete_sender.send() was called, -1 before (history)
    complete_count,  \* complete_sender.send() calls (history)
    events,          \* notices posted to the dialog's thread, not yet handled
    chan,            \* values sent on the progress channel, not yet received
    ui,              \* the dialog's thread: "idle" | "open" | "closed" | "panicked"
    progress_pending,
    progress_last_updated,
    details,         \* the lines of details_box
    received,        \* the values on_progress received (history)
    dialog_result,   \* "none" | "success" | "failure"
    complete_handled, \* on_complete calls (history)
    \* --- the output of pg_dump / pg_restore on its way to the progress sink
    stream_tool,     \* "none" | "pg_dump" | "pg_restore"
    stream_out,      \* the bytes the tool writes to its merged stdout/stderr
    stream_pos,      \* the reader's position in stream_out
    stream_sent,     \* the values sent to the progress sink, in order
    stream_res       \* "reading" | "ok" | "err"

intVars == <<ipc, iv, ibuf, ires, ioverflow>>
restoreVars == <<rpc, dest_db_name, db_list, pg_roles, pre_roles, granted, role_i,
                 res, roles, drop_i, drop_issued, dropped, created, dir, rewritten,
                 rewrite_toc, remove_dir_all, pg_restore, pg_restore_err, result,
                 progress>>
envVars == <<password, env, child, nruns>>
zipVars == <<zpc, src_dir, comp_level, dst_file, dst_file0, zip_result>>
dialogVars == <<wpc, wres, nsent, now, skew, start, ret_at, sent_at, complete_count, events,
                chan, ui, progress_pending, progress_last_updated, details, received,
                dialog_result, complete_handled>>
streamVars == <<stream_tool, stream_out, stream_pos, stream_sent, stream_res>>
backupVars == <<bpc, dest_filename, dest_dir, bfilename, bdirs, bfiles, bfiles0, bsent,
                bresult, pg_dump, zip_st, complete_sent, brun, used_dirs>>
tocVars == <<toc_in, toc_src, dbname, tpc, toc_res, toc_err, rpos, toc_dest,
             toc_count, idx, orig_dbname, map, last_in, last_out, last_orig,
             files, files0, tbl_i>>

----------------------------------------------------------------------------
(* i32 and its 5-byte encoding                                             *)

I32Max == 2147483647
I32Min == -I32Max - 1

Pow2(k) == 2 ^ k

\* `val as u32`, as the four bytes u32::to_le_bytes gives (two's complement).
U32LeBytes(val) ==
    << val % 256, (val \div 256) % 256, (val \div 65536) % 256,
       (val \div 16777216) % 256 >>

\* The u32 read_int accumulates from buf[1..5], then `res as i32`.
I32OfLeBytes(b) ==
    b[1] + b[2] * 256 + b[3] * 65536
      + (IF b[4] >= 128 THEN b[4] - 256 ELSE b[4]) * 16777216

\* `-x` on an i32: i32::MIN has no negation; the build decides what happens.
NegOverflows(x) == x = I32Min
NegWrapped(x) == IF x = I32Min THEN I32Min ELSE -x

\* write_int(writer, val): the bytes appended to the writer.
\* st = "panic": the negation overflowed in a build with overflow checks.
write_int(val, oc) ==
    IF val >= 0
      THEN [st |-> "ok", bytes |-> <<0>> \o U32LeBytes(val), ovf |-> FALSE]
      ELSE IF NegOverflows(val) /\ oc
        THEN [st |-> "panic", bytes |-> <<>>, ovf |-> TRUE]
        ELSE [st |-> "ok", bytes |-> <<1>> \o U32LeBytes(NegWrapped(val)),
              ovf |-> NegOverflows(val)]

\* read_int(reader) with the reader at position pos (1-based) of bytes src.
\* st = "err": read_exact hit the end of the file.
read_int(src, pos, oc) ==
    IF pos + 4 > Len(src)
      THEN [st |-> "err", val |-> 0, pos |-> pos, ovf |-> FALSE]
      ELSE LET res_signed == I32OfLeBytes(SubSeq(src, pos + 1, pos + 4))
           IN  IF src[pos] > 0
                 THEN IF NegOverflows(res_signed) /\ oc
                        THEN [st |-> "panic", val |-> 0, pos |-> pos, ovf |-> TRUE]
                        ELSE [st |-> "ok", val |-> NegWrapped(res_signed),
                              pos |-> pos + 5, ovf |-> NegOverflows(res_signed)]
                 ELSE [st |-> "ok", val |-> res_signed, pos |-> pos + 5,
                       ovf |-> FALSE]

----------------------------------------------------------------------------
(* Evaluation idiom: The({ F(x) : x \in {E} }) is F applied to the value   *)
(* of E, with E evaluated once.  It is how `let x = E; F(x)` is written     *)
(* below wherever x is used more than once.                                *)

The(S) == CHOOSE y \in S : TRUE

----------------------------------------------------------------------------
(* Rust strings over bytes                                                 *)

None == [some |-> FALSE, bytes |-> <<>>]
Some(b) == [some |-> TRUE, bytes |-> b]

\* Byte at 1-based index i, 0 beyond the end (core::str::lossy's safe_get).
SafeGet(s, i) == IF i <= Len(s) THEN s[i] ELSE 0

IsCont(b) == b >= 128 /\ b <= 191

\* The chunk of s that starts at i, as Utf8Chunks cuts it: a valid character
\* of len bytes, or a maximal invalid prefix of len bytes.
Utf8Step(s, i) ==
    LET b1 == s[i]
        b2 == SafeGet(s, i + 1)
        b3 == SafeGet(s, i + 2)
        b4 == SafeGet(s, i + 3)
    IN  IF b1 < 128 THEN [valid |-> TRUE, len |-> 1]
        ELSE IF b1 >= 194 /\ b1 <= 223
          THEN IF IsCont(b2) THEN [valid |-> TRUE, len |-> 2]
                             ELSE [valid |-> FALSE, len |-> 1]
        ELSE IF b1 >= 224 /\ b1 <= 239
          THEN IF ~( \/ (b1 = 224 /\ b2 >= 160 /\ b2 <= 191)
                     \/ (b1 >= 225 /\ b1 <= 236 /\ IsCont(b2))
                     \/ (b1 = 237 /\ b2 >= 128 /\ b2 <= 159)
                     \/ (b1 >= 238 /\ IsCont(b2)) )
                 THEN [valid |-> FALSE, len |-> 1]
               ELSE IF ~IsCont(b3) THEN [valid |-> FALSE, len |-> 2]
               ELSE [valid |-> TRUE, len |-> 3]
        ELSE IF b1 >= 240 /\ b1 <= 244
          THEN IF ~( \/ (b1 = 240 /\ b2 >= 144 /\ b2 <= 191)
                     \/ (b1 >= 241 /\ b1 <= 243 /\ IsCont(b2))
                     \/ (b1 = 244 /\ b2 >= 128 /\ b2 <= 143) )
                 THEN [valid |-> FALSE, len |-> 1]
               ELSE IF ~IsCont(b3) THEN [valid |-> FALSE, len |-> 2]
               ELSE IF ~IsCont(b4) THEN [valid |-> FALSE, len |-> 3]
               ELSE [valid |-> TRUE, len |-> 4]
        ELSE [valid |-> FALSE, len |-> 1]

\* Whether a chunk starts at i when s is cut from its first byte on.  A byte
\* that is no continuation byte always starts one; a continuation byte does
\* unless the chunk of the nearest byte before it that is none reaches it.
IsChunkStart(s, i) ==
    \/ ~IsCont(s[i])
    \/ \A j \in 1..(i - 1) :
          (~IsCont(s[j]) /\ \A k \in (j + 1)..(i - 1) : IsCont(s[k]))
             => j + Utf8Step(s, j).len <= i

\* The starts of the invalid chunks of s at or after i.
InvalidFrom(s, i) ==
    { k \in i..Len(s) : IsChunkStart(s, k) /\ ~Utf8Step(s, k).valid }

Min(S) == CHOOSE x \in S : \A y \in S : x <= y

\* U+FFFD REPLACEMENT CHARACTER in UTF-8.
ReplacementChar == <<239, 191, 189>>

\* The valid text up to the next invalid chunk is kept, the invalid chunk
\* becomes U+FFFD, and so on from the byte after it.
RECURSIVE LossyFrom(_, _)
LossyFrom(s, i) ==
    IF InvalidFrom(s, i) = {} THEN SubSeq(s, i, Len(s))
    ELSE The({ SubSeq(s, i, k - 1) \o ReplacementChar
                 \o LossyFrom(s, k + Utf8Step(s, k).len) :
               k \in { Min(InvalidFrom(s, i)) } })

\* String::from_utf8_lossy(bin).to_string(), as the bytes of the String.
from_utf8_lossy(bin) == LossyFrom(bin, 1)

binopt_to_string(bin_opt) ==
    IF bin_opt.some THEN from_utf8_lossy(bin_opt.bytes) ELSE <<>>

StartsWithAt(s, i, needle) ==
    /\ i + Len(needle) - 1 <= Len(s)
    /\ SubSeq(s, i, i + Len(needle) - 1) = needle

ends_with(s, suffix) ==
    /\ Len(suffix) <= Len(s)
    /\ SubSeq(s, Len(s) - Len(suffix) + 1, Len(s)) = suffix

\* The places at or after i where needle occurs in s.
MatchesFrom(s, i, needle) == { k \in i..Len(s) : StartsWithAt(s, k, needle) }

\* The text up to the next match is kept, the match becomes `to`, and the
\* search goes on after the match (matches do not overlap).
RECURSIVE ReplaceFrom(_, _, _, _)
ReplaceFrom(s, i, needle, to) ==
    IF MatchesFrom(s, i, needle) = {} THEN SubSeq(s, i, Len(s))
    ELSE The({ SubSeq(s, i, k - 1) \o to \o ReplaceFrom(s, k + Len(needle), needle, to) :
               k \in { Min(MatchesFrom(s, i, needle)) } })

\* str::replace(needle, to) for a non-empty needle.
str_replace(s, needle, to) == ReplaceFrom(s, 1, needle, to)

\* s.chars().take(n).collect::<String>() on a String s (valid UTF-8): s up
\* to the byte before its character number n + 1.
chars_take(s, n) ==
    LET starts == { i \in 1..Len(s) : ~IsCont(s[i]) }
    IN  IF n <= 0 THEN <<>>
        ELSE IF Cardinality(starts) <= n THEN s
        ELSE SubSeq(s, 1, (CHOOSE k \in starts :
                             Cardinality({ j \in starts : j < k }) = n) - 1)

\* The literals of toc.rs.
PGDMP == <<80, 71, 68, 77, 80>>
s_dbo == <<95, 100, 98, 111>>                          \* "_dbo"
s_db_owner == <<95, 100, 98, 95, 111, 119, 110, 101, 114>> \* "_db_owner"
s_guest == <<95, 103, 117, 101, 115, 116>>             \* "_guest"
s_SCHEMA == <<83, 67, 72, 69, 77, 65>>                 \* "SCHEMA"
s_SCHEMA_sp == s_SCHEMA \o <<32>>                      \* "SCHEMA "
s_dot == <<46>>                                        \* "."

----------------------------------------------------------------------------
(* The reader / writer pair threaded through toc.rs                        *)
(*                                                                         *)
(* rw = [st, err, pos, out, val]: st is "ok", "err" (an io::Error, err its *)
(* message) or "panic"; pos the reader's position in the source bytes; out *)
(* the bytes written so far; val the value the last read returned.  Every  *)
(* step is skipped once st is not "ok", as `?` returns early.              *)

RW0 == [st |-> "ok", err |-> "", pos |-> 1, out |-> <<>>, val |-> 0]

Fail(rw, msg) == [rw EXCEPT !.st = "err", !.err = msg]
Panic(rw, msg) == [rw EXCEPT !.st = "panic", !.err = msg]

\* reader.read_exact(&mut buf) for a buffer of n bytes.
read_exact(src, rw, n) ==
    IF rw.st # "ok" THEN rw
    ELSE IF rw.pos + n - 1 > Len(src)
      THEN Fail(rw, "failed to fill whole buffer")
      ELSE [rw EXCEPT !.val = SubSeq(src, rw.pos, rw.pos + n - 1),
                      !.pos = rw.pos + n]

\* writer.write_all(bytes)
write_all(rw, bytes) ==
    IF rw.st # "ok" THEN rw ELSE [rw EXCEPT !.out = rw.out \o bytes]

\* read_int(reader)? on the pair
rd_int(src, rw, oc) ==
    IF rw.st # "ok" THEN rw
    ELSE The({ IF r.st = "err" THEN Fail(rw, "failed to fill whole buffer")
               ELSE IF r.st = "panic" THEN Panic(rw, "attempt to negate with overflow")
               ELSE [rw EXCEPT !.val = r.val, !.pos = r.pos] :
               r \in { read_int(src, rw.pos, oc) } })

\* write_int(writer, val)? on the pair
wr_int(rw, val, oc) ==
    IF rw.st # "ok" THEN rw
    ELSE The({ IF w.st = "panic" THEN Panic(rw, "attempt to negate with overflow")
               ELSE write_all(rw, w.bytes) :
               w \in { write_int(val, oc) } })

copy_magic(src, rw) ==
    The({ IF r.st # "ok" THEN r
          ELSE IF PGDMP # r.val THEN Fail(r, "Magic check failure")
          ELSE write_all(r, r.val) :
          r \in { read_exact(src, rw, 5) } })

copy_version(src, rw) ==
    The({ IF r.st # "ok" THEN r
          ELSE IF 1 # r.val[1] /\ 14 # r.val[2] THEN Fail(r, "Version check failure")
          ELSE write_all(r, r.val) :
          r \in { read_exact(src, rw, 3) } })

\* A variant of copy_flags that looks at the format first.
copy_flags_format_first(src, rw) ==
    The({ IF r.st # "ok" THEN r
          ELSE IF 3 # r.val[3] THEN Fail(r, "Format check failed")
          ELSE IF 4 # r.val[1] THEN Fail(r, "Int size check failed")
          ELSE IF 8 # r.val[2] THEN Fail(r, "Offset check failed")
          ELSE write_all(r, r.val) :
          r \in { read_exact(src, rw, 3) } })

copy_flags(src, rw) ==
    The({ IF r.st # "ok" THEN r
          ELSE IF 4 # r.val[1] THEN Fail(r, "Int size check failed")
          ELSE IF 8 # r.val[2] THEN Fail(r, "Offset check failed")
          ELSE IF 3 # r.val[3] THEN Fail(r, "Format check failed")
          ELSE write_all(r, r.val) :
          r \in { read_exact(src, rw, 3) } })

copy_int(src, rw, oc) ==
    The({ wr_int(r, r.val, oc) : r \in { rd_int(src, rw, oc) } })

\* chrono's NaiveDate::from_ymd_opt(year, month, day).is_some(), its
\* arguments already cast: a negative i32 cast to u32 is out of every range.
IsLeap(y) == (y % 4 = 0 /\ y % 100 # 0) \/ y % 400 = 0
DaysIn(y, m) ==
    IF m = 2 THEN (IF IsLeap(y) THEN 29 ELSE 28)
    ELSE IF m \in {4, 6, 9, 11} THEN 30 ELSE 31
from_ymd_opt(y, m, d) ==
    /\ y >= -262143 /\ y <= 262142
    /\ m >= 1 /\ m <= 12
    /\ d >= 1 /\ d <= DaysIn(y, m)
\* NaiveTime::from_hms_opt(hour, min, sec).is_some()
from_hms_opt(h, mi, sec) ==
    /\ h >= 0 /\ h < 24
    /\ mi >= 0 /\ mi < 60
    /\ sec >= 0 /\ sec < 60

\* n successive `copy_int(reader, writer)?`; acc takes the values copied.
RECURSIVE CopyInts(_, _, _, _, _)
CopyInts(src, rw, oc, n, acc) ==
    IF rw.st # "ok" THEN rw
    ELSE IF n = 0 THEN [rw EXCEPT !.val = acc]
    ELSE The({ The({ CopyInts(src, r, oc, n - 1, a) :
                     a \in { IF r.st = "ok" THEN Append(acc, r.val) ELSE acc } }) :
               r \in { copy_int(src, rw, oc) } })

\* The date and the time copy_timestamp builds from the seven integers
\* <<sec, min, hour, day, month, year, is_dst>> it copied.
timestamp_checks(r, ts, oc) ==
    IF ts[6] > I32Max - 1900 /\ oc THEN Panic(r, "attempt to add with overflow")
    ELSE IF ~( /\ ts[6] <= I32Max - 1900
               /\ from_ymd_opt(ts[6] + 1900, ts[5], ts[4]) )
      THEN Fail(r, "Invalid date")
    ELSE IF ~from_hms_opt(ts[3], ts[2], ts[1]) THEN Fail(r, "Invalid time")
    ELSE r

copy_timestamp(src, rw, oc) ==
    The({ IF r.st # "ok" THEN r ELSE timestamp_checks(r, r.val, oc) :
          r \in { CopyInts(src, rw, oc, 7, <<>>) } })

read_string_opt(src, rw, oc) ==
    The({ IF r.st # "ok" THEN r
          ELSE IF r.val < 0 THEN [r EXCEPT !.val = None]
          ELSE IF 0 = r.val THEN [r EXCEPT !.val = Some(<<>>)]
          ELSE The({ IF b.st # "ok" THEN b ELSE [b EXCEPT !.val = Some(b.val)] :
                     b \in { read_exact(src, r, r.val) } }) :
          r \in { rd_int(src, rw, oc) } })

\* A variant of write_string_opt that writes an absent string as an empty one.
write_string_opt_none_as_empty(rw, opt, oc) ==
    IF opt.some
      THEN The({ write_all(w, opt.bytes) : w \in { wr_int(rw, Len(opt.bytes), oc) } })
      ELSE wr_int(rw, 0, oc)

\* A variant of write_string_opt that writes the number of characters as
\* the length.
write_string_opt_char_count(rw, opt, oc) ==
    IF opt.some
      THEN The({ write_all(w, opt.bytes) :
                 w \in { wr_int(rw, Cardinality({ k \in 1..Len(opt.bytes) :
                                                    ~IsCont(opt.bytes[k]) }), oc) } })
      ELSE wr_int(rw, -1, oc)

write_string_opt(rw, opt, oc) ==
    IF opt.some
      THEN The({ write_all(w, opt.bytes) : w \in { wr_int(rw, Len(opt.bytes), oc) } })
      ELSE wr_int(rw, -1, oc)

copy_string_opt(src, rw, oc) ==
    The({ IF r.st # "ok" THEN r
          ELSE The({ [w EXCEPT !.val = r.val] : w \in { write_string_opt(r, r.val, oc) } }) :
          r \in { read_string_opt(src, rw, oc) } })

copy_string(src, rw, oc) ==
    The({ IF r.st # "ok" THEN r
          ELSE IF r.val.some THEN [r EXCEPT !.val = from_utf8_lossy(r.val.bytes)]
          ELSE Fail(r, "String read failed") :
          r \in { copy_string_opt(src, rw, oc) } })

\* copy_header: each call is made on what the call before it left.
copy_header(src, rw, oc) ==
    The({ copy_string(src, r7, oc) : r7 \in
      { copy_string(src, r6, oc) : r6 \in
        { copy_string(src, r5, oc) : r5 \in
          { copy_timestamp(src, r4, oc) : r4 \in
            { copy_int(src, r3, oc) : r3 \in
              { copy_flags(src, r2) : r2 \in
                { copy_version(src, r1) : r1 \in
                  { copy_magic(src, rw) } } } } } } } })

----------------------------------------------------------------------------
(* TocEntry: read, modify, write                                           *)

\* The first fifteen fields of a TocEntry in file order, and their kinds.
EntryFields ==
    << "dump_id", "had_dumper", "table_oid", "catalog_oid", "tag",
       "description", "section", "defn", "drop_stmt", "copy_stmt",
       "namespace", "tablespace", "tableam", "owner", "table_with_oids" >>
IntFields == {"dump_id", "had_dumper", "section"}

\* read_toc_entry's reads of the first fifteen fields, in order; acc takes
\* the values read.
RECURSIVE ReadFields(_, _, _, _, _)
ReadFields(src, rw, oc, k, acc) ==
    IF rw.st # "ok" THEN rw
    ELSE IF k > Len(EntryFields) THEN [rw EXCEPT !.val = acc]
    ELSE The({ The({ ReadFields(src, r, oc, k + 1, a) :
                     a \in { IF r.st = "ok" THEN Append(acc, r.val) ELSE acc } }) :
               r \in { IF EntryFields[k] \in IntFields
                         THEN rd_int(src, rw, oc)
                         ELSE read_string_opt(src, rw, oc) } })

\* The loop of read_toc_entry: dependency ids up to the first absent string.
RECURSIVE ReadDeps(_, _, _, _)
ReadDeps(src, rw, oc, acc) ==
    The({ IF r.st # "ok" THEN r
          ELSE IF r.val.some
            THEN The({ ReadDeps(src, r, oc, a) : a \in { Append(acc, r.val.bytes) } })
          ELSE [r EXCEPT !.val = acc] :
          r \in { read_string_opt(src, rw, oc) } })

TocEntryOf(f, deps, filename) ==
    [ dump_id |-> f[1], had_dumper |-> f[2], table_oid |-> f[3],
      catalog_oid |-> f[4], tag |-> f[5], description |-> f[6],
      section |-> f[7], defn |-> f[8], drop_stmt |-> f[9],
      copy_stmt |-> f[10], namespace |-> f[11], tablespace |-> f[12],
      tableam |-> f[13], owner |-> f[14], table_with_oids |-> f[15],
      deps |-> deps, filename |-> filename ]

read_toc_entry(src, rw, oc) ==
    The({ IF f.st # "ok" THEN f
          ELSE The({ IF d.st # "ok" THEN d
                     ELSE The({ IF n.st # "ok" THEN n
                                ELSE [n EXCEPT !.val = TocEntryOf(f.val, d.val, n.val)] :
                                n \in { read_string_opt(src, d, oc) } }) :
                     d \in { ReadDeps(src, f, oc, <<>>) } }) :
          f \in { ReadFields(src, rw, oc, 1, <<>>) } })

RECURSIVE WriteFields(_, _, _, _)
WriteFields(rw, te, oc, k) ==
    IF k > Len(EntryFields) THEN rw
    ELSE The({ WriteFields(r, te, oc, k + 1) :
               r \in { IF EntryFields[k] \in IntFields
                         THEN wr_int(rw, te[EntryFields[k]], oc)
                         ELSE write_string_opt(rw, te[EntryFields[k]], oc) } })

RECURSIVE WriteDeps(_, _, _, _)
WriteDeps(rw, deps, oc, k) ==
    IF k > Len(deps) THEN rw
    ELSE The({ WriteDeps(r, deps, oc, k + 1) :
               r \in { write_string_opt(rw, Some(deps[k]), oc) } })

write_toc_entry(rw, te, oc) ==
    The({ write_string_opt(t, te.filename, oc) : t \in
      { write_string_opt(d, None, oc) : d \in
        { WriteDeps(f, te.deps, oc, 1) : f \in
          { WriteFields(rw, te, oc, 1) } } } })

\* Whether replace_dbname appends '.' to its needles and replacements.
add_dot(te_tag, orig, can_add_dot) ==
    /\ can_add_dot
    /\ te_tag # orig \o s_dbo
    /\ te_tag # s_SCHEMA_sp \o orig \o s_dbo
    /\ te_tag # orig \o s_guest
    /\ te_tag # s_SCHEMA_sp \o orig \o s_guest

\* A variant of replace_three whose replacements always end in '.'.
replace_three_dotted_replacement(s, orig, new, dot) ==
    The({ str_replace(s2, orig \o s_guest \o dot, new \o s_guest \o s_dot) : s2 \in
      { str_replace(s1, orig \o s_db_owner \o dot, new \o s_db_owner \o s_dot) : s1 \in
        { str_replace(s, orig \o s_dbo \o dot, new \o s_dbo \o s_dot) } } })

\* The three replacements of replace_dbname on the text s, dot being "." or "".
replace_three(s, orig, new, dot) ==
    The({ str_replace(s2, orig \o s_guest \o dot, new \o s_guest \o dot) : s2 \in
      { str_replace(s1, orig \o s_db_owner \o dot, new \o s_db_owner \o dot) : s1 \in
        { str_replace(s, orig \o s_dbo \o dot, new \o s_dbo \o dot) } } })

\* replace_dbname(te, opt, orig_dbname, dbname, can_add_dot); orig and new
\* stand for orig_dbname and dbname.
replace_dbname(te, opt, orig, new, can_add_dot) ==
    IF ~opt.some THEN None
    ELSE Some(replace_three(
                binopt_to_string(opt), orig, new,
                IF add_dot(binopt_to_string(te.tag), orig, can_add_dot)
                  THEN s_dot ELSE <<>>))

\* A variant of modify_toc_entry that rewrites the tablespace as well.
modify_toc_entry_and_tablespace(te, orig, new) ==
    IF orig = <<>> THEN te
    ELSE
      The({ [t6 EXCEPT !.tablespace = replace_dbname(t6, t6.tablespace, orig, new, FALSE)] : t6 \in {
      The({ [t5 EXCEPT !.tag = replace_dbname(t5, t5.tag, orig, new, FALSE)] : t5 \in
        { [t4 EXCEPT !.owner = replace_dbname(t4, t4.owner, orig, new, FALSE)] : t4 \in
          { [t3 EXCEPT !.namespace = replace_dbname(t3, t3.namespace, orig, new, FALSE)] : t3 \in
            { [t2 EXCEPT !.drop_stmt = replace_dbname(t2, t2.drop_stmt, orig, new, TRUE)] : t2 \in
              { [t1 EXCEPT !.copy_stmt = replace_dbname(t1, t1.copy_stmt, orig, new, TRUE)] : t1 \in
                { [te EXCEPT !.defn = replace_dbname(te, te.defn, orig, new, TRUE)] } } } } } }) } })

\* A variant of modify_toc_entry that replaces the tag first.
modify_toc_entry_tag_first(te, orig, new) ==
    IF orig = <<>> THEN te
    ELSE
      The({ [t5 EXCEPT !.owner = replace_dbname(t5, t5.owner, orig, new, FALSE)] : t5 \in
        { [t4 EXCEPT !.namespace = replace_dbname(t4, t4.namespace, orig, new, FALSE)] : t4 \in
          { [t3 EXCEPT !.drop_stmt = replace_dbname(t3, t3.drop_stmt, orig, new, TRUE)] : t3 \in
            { [t2 EXCEPT !.copy_stmt = replace_dbname(t2, t2.copy_stmt, orig, new, TRUE)] : t2 \in
              { [t1 EXCEPT !.defn = replace_dbname(t1, t1.defn, orig, new, TRUE)] : t1 \in
                { [te EXCEPT !.tag = replace_dbname(te, te.tag, orig, new, FALSE)] } } } } } })

\* modify_toc_entry(te, orig_dbname, dbname): each call sees the entry as
\* the calls before it left it; the tag is replaced last.
modify_toc_entry(te, orig, new) ==
    IF orig = <<>> THEN te
    ELSE
      The({ [t5 EXCEPT !.tag = replace_dbname(t5, t5.tag, orig, new, FALSE)] : t5 \in
        { [t4 EXCEPT !.owner = replace_dbname(t4, t4.owner, orig, new, FALSE)] : t4 \in
          { [t3 EXCEPT !.namespace = replace_dbname(t3, t3.namespace, orig, new, FALSE)] : t3 \in
            { [t2 EXCEPT !.drop_stmt = replace_dbname(t2, t2.drop_stmt, orig, new, TRUE)] : t2 \in
              { [t1 EXCEPT !.copy_stmt = replace_dbname(t1, t1.copy_stmt, orig, new, TRUE)] : t1 \in
                { [te EXCEPT !.defn = replace_dbname(te, te.defn, orig, new, TRUE)] } } } } } })

\* The part of rewrite_toc's loop body that finds the original name: the
\* entry's tag ends with "_dbo" and its description is "SCHEMA".
detect_orig_dbname(te, orig) ==
    The({ IF ends_with(te_tag, s_dbo) /\ binopt_to_string(te.description) = s_SCHEMA
            THEN chars_take(te_tag, Len(te_tag) - Len(s_dbo))
            ELSE orig :
          te_tag \in { binopt_to_string(te.tag) } })

\* map.insert(te_tag, te_filename) when the entry names a data file; the map
\* is a set of <<tag, filename>> pairs with one pair per tag.
map_insert(m, te) ==
    The({ IF tf[2] # <<>>
            THEN { p \in m : p[1] # tf[1] } \cup { tf }
            ELSE m :
          tf \in { <<binopt_to_string(te.tag), binopt_to_string(te.filename)>> } })

----------------------------------------------------------------------------
(* rewrite_table and rewrite_dbname_in_tables                              *)
(*                                                                         *)
(* The directory is a function from paths to None (no such file) or        *)
(* Some(bytes).  A path is <<file name, suffix>>.                          *)

\* The positions of the byte b in s at or after i.
BytesFrom(s, i, b) == { k \in i..Len(s) : s[k] = b }

\* BufRead::lines(): the text up to each "\n", without the "\n" and without
\* a "\r" before it; a last line with no "\n" is a line as it stands.
RECURSIVE LinesFrom(_, _)
LinesFrom(s, i) ==
    IF i > Len(s) THEN <<>>
    ELSE IF BytesFrom(s, i, 10) = {} THEN << SubSeq(s, i, Len(s)) >>
    ELSE The({ << IF k > i /\ s[k - 1] = 13 THEN SubSeq(s, i, k - 2)
                                             ELSE SubSeq(s, i, k - 1) >>
                  \o LinesFrom(s, k + 1) :
               k \in { Min(BytesFrom(s, i, 10)) } })

\* line.split('\t')
RECURSIVE SplitFrom(_, _)
SplitFrom(s, i) ==
    IF BytesFrom(s, i, 9) = {} THEN << SubSeq(s, i, Len(s)) >>
    ELSE The({ << SubSeq(s, i, k - 1) >> \o SplitFrom(s, k + 1) :
               k \in { Min(BytesFrom(s, i, 9)) } })

\* str::replace("", to): `to` before every character and at the end.
RECURSIVE InsertFrom(_, _, _)
InsertFrom(s, i, to) ==
    IF i > Len(s) THEN to
    ELSE The({ to \o SubSeq(s, i, i + n - 1) \o InsertFrom(s, i + n, to) :
               n \in { Utf8Step(s, i).len } })

\* part.replace(orig_dbname, dbname), the empty needle included.
part_replace(s, needle, to) ==
    IF needle = <<>> THEN InsertFrom(s, 1, to) ELSE str_replace(s, needle, to)

\* A variant of the inner loop that replaces in every part.
RECURSIVE JoinParts_every_part(_, _, _, _)
JoinParts_every_part(parts, k, orig, new) ==
    IF k > Len(parts) THEN <<>>
    ELSE (IF k > 1 THEN <<9>> ELSE <<>>)
           \o part_replace(parts[k], orig, new)
           \o JoinParts_every_part(parts, k + 1, orig, new)

\* The inner loop of rewrite_table on one line, and the join.
RECURSIVE JoinParts(_, _, _, _)
JoinParts(parts, k, orig, new) ==
    IF k > Len(parts) THEN <<>>
    ELSE (IF k > 1 THEN <<9>> ELSE <<>>)
           \o (IF StartsWithAt(parts[k], 1, orig)
                 THEN part_replace(parts[k], orig, new)
                 ELSE parts[k])
           \o JoinParts(parts, k + 1, orig, new)

\* The loop `for ln in reader.lines()` of rewrite_table from line k on: the
\* bytes written, and "err" when a line is not UTF-8 (`ln?`).
RECURSIVE RewriteLines(_, _, _, _, _)
RewriteLines(lines, k, orig, new, acc) ==
    IF k > Len(lines) THEN [st |-> "ok", out |-> acc]
    ELSE IF InvalidFrom(lines[k], 1) # {} THEN [st |-> "err", out |-> acc]
    ELSE The({ RewriteLines(lines, k + 1, orig, new, a) :
               a \in { acc \o JoinParts(SplitFrom(lines[k], 1), 1, orig, new) \o <<10>> } })

rewrite_table_rows(bytes, orig, new) ==
    RewriteLines(LinesFrom(bytes, 1), 1, orig, new, <<>>)

\* The three paths of rewrite_table for a file name.
SrcPath(filename) == <<filename, "">>
DestPath(filename) == <<filename, ".rewritten">>
OrigPath(filename) == <<filename, ".orig">>

\* fs::rename(from, to) on the directory d.
rename(d, from, to) == [d EXCEPT ![to] = d[from], ![from] = None]

\* rewrite_table(dir_path, filename, orig_dbname, dbname) on the directory
\* d.  io names the operation the file system refuses, if any: "open",
\* "rename_orig", "rename_new" or "none".  The writer is dropped, and its
\* bytes reach the file, when the block of the loop is left.
rewrite_table(d, filename, orig, new, io) ==
    IF io = "open" \/ ~d[SrcPath(filename)].some
      THEN [st |-> "err", err |-> "open", files |-> d]
    ELSE The({
      IF w.st # "ok"
        THEN [st |-> "err", err |-> "stream did not contain valid UTF-8",
              files |-> [d EXCEPT ![DestPath(filename)] = Some(w.out)]]
      ELSE The({
        IF io = "rename_orig" THEN [st |-> "err", err |-> "rename", files |-> d1]
        ELSE The({
          IF io = "rename_new" THEN [st |-> "err", err |-> "rename", files |-> d2]
          ELSE [st |-> "ok", err |-> "",
                files |-> rename(d2, DestPath(filename), SrcPath(filename))] :
          d2 \in { rename(d1, SrcPath(filename), OrigPath(filename)) } }) :
        d1 \in { [d EXCEPT ![DestPath(filename)] = Some(w.out)] } }) :
      w \in { rewrite_table_rows(d[SrcPath(filename)].bytes, orig, new) } })

\* The tables rewrite_dbname_in_tables rewrites, in its order.
s_babelfish_authid_user_ext == <<98, 97, 98, 101, 108, 102, 105, 115, 104, 95, 97, 117, 116, 104, 105, 100, 95, 117, 115, 101, 114, 95, 101, 120, 116>>
s_babelfish_function_ext == <<98, 97, 98, 101, 108, 102, 105, 115, 104, 95, 102, 117, 110, 99, 116, 105, 111, 110, 95, 101, 120, 116>>
s_babelfish_namespace_ext == <<98, 97, 98, 101, 108, 102, 105, 115, 104, 95, 110, 97, 109, 101, 115, 112, 97, 99, 101, 95, 101, 120, 116>>
s_babelfish_sysdatabases == <<98, 97, 98, 101, 108, 102, 105, 115, 104, 95, 115, 121, 115, 100, 97, 116, 97, 98, 97, 115, 101, 115>>
TrackedTables ==
    << s_babelfish_authid_user_ext, s_babelfish_function_ext,
       s_babelfish_namespace_ext, s_babelfish_sysdatabases >>

\* map.get(name): None, or Some(file name).
map_get(m, name) ==
    IF \E pr \in m : pr[1] = name
      THEN Some((CHOOSE pr \in m : pr[1] = name)[2])
      ELSE None

----------------------------------------------------------------------------
(* Input TOCs: what pg_dump writes                                         *)

\* pg_dump's WriteInt / WriteStr: the layout read_int and read_string_opt
\* decode (sign byte 0 or 1, magnitude little-endian; length -1 for NULL).
EncInt(v) == <<IF v < 0 THEN 1 ELSE 0>> \o U32LeBytes(IF v < 0 THEN -v ELSE v)
EncStr(opt) == IF opt.some THEN EncInt(Len(opt.bytes)) \o opt.bytes ELSE EncInt(-1)

RECURSIVE EncInts(_, _)
EncInts(vals, k) ==
    IF k > Len(vals) THEN <<>> ELSE EncInt(vals[k]) \o EncInts(vals, k + 1)

RECURSIVE EncFields(_, _)
EncFields(te, k) ==
    IF k > Len(EntryFields) THEN <<>>
    ELSE (IF EntryFields[k] \in IntFields THEN EncInt(te[EntryFields[k]])
                                          ELSE EncStr(te[EntryFields[k]]))
           \o EncFields(te, k + 1)

RECURSIVE EncDeps(_, _)
EncDeps(deps, k) ==
    IF k > Len(deps) THEN <<>> ELSE EncStr(Some(deps[k])) \o EncDeps(deps, k + 1)

EncEntry(te) ==
    EncFields(te, 1) \o EncDeps(te.deps, 1) \o EncStr(None) \o EncStr(te.filename)

RECURSIVE EncEntries(_, _)
EncEntries(es, k) ==
    IF k > Len(es) THEN <<>> ELSE EncEntry(es[k]) \o EncEntries(es, k + 1)

EncHeader(h) ==
    h.magic \o h.version \o h.flags \o EncInt(h.comp) \o EncInts(h.ts, 1)
      \o EncStr(h.dbname) \o EncStr(h.ver_server) \o EncStr(h.ver_dump)

EncToc(t) == EncHeader(t.header) \o EncInt(Len(t.entries)) \o EncEntries(t.entries, 1)

\* Names and texts used in the inputs.
Acme == <<97, 99, 109, 101>>                 \* "acme"
Bolt == <<98, 111, 108, 116>>                \* "bolt"
s_t1 == <<46, 116, 49>>                      \* ".t1"
s_GRANT == <<71, 82, 65, 78, 84, 32>>        \* "GRANT "
s_TO == <<32, 84, 79, 32>>                   \* " TO "
s_TABLE == <<84, 65, 66, 76, 69>>            \* "TABLE"
s_ACL == <<65, 67, 76>>                      \* "ACL"
s_e_acute == <<195, 169, 32>>                \* "e-acute, space" (2-byte char)
s_x == <<120>>                               \* "x"
s_2 == <<50>>                                \* "2"
s_7 == <<55>>                                \* "7"
s_12 == <<49, 50>>                           \* "12"
s_1dat == <<49, 46, 100, 97, 116>>           \* "1.dat"
s_bad == <<255>>                             \* a byte no UTF-8 text holds

GrantStmt(db) == s_GRANT \o db \o s_guest \o s_TO \o db \o s_dbo
QualRef(db) == db \o s_dbo \o s_t1            \* "{db}_dbo.t1"

\* The texts a definition / copy / drop statement takes in the inputs.
Fillers == { <<>>, s_x \o <<32>>, s_e_acute }
Closers == { <<>>, <<59>> }                  \* nothing, ";"
Bodies ==
    { None, Some(<<>>), Some(GrantStmt(Acme)) }
      \cup { Some(pre \o QualRef(Acme) \o post) : pre \in Fillers, post \in Closers }
      \cup { Some(s_x \o QualRef(Acme)),                  \* "xacme_dbo.t1"
             Some(Acme \o s_dbo \o s_2 \o s_t1),          \* "acme_dbo2.t1"
             Some(Acme \o s_db_owner \o s_t1 \o <<32>> \o Acme \o s_guest \o s_t1),
             Some(s_bad \o QualRef(Acme)) }
Tags ==
    { None, Some(<<>>), Some(s_t1),
      Some(Acme \o s_dbo), Some(s_SCHEMA_sp \o Acme \o s_dbo),
      Some(Acme \o s_guest), Some(Acme \o s_db_owner),
      Some(s_x \o Acme \o s_dbo) }
Descs == { None, Some(s_SCHEMA), Some(s_TABLE), Some(s_ACL) }
Idents ==
    { None, Some(<<>>), Some(Acme \o s_dbo), Some(Acme \o s_guest),
      Some(s_x \o Acme \o s_dbo), Some(Acme \o s_dbo \o s_2 \o s_dot) }
Extras == { None, Some(<<>>), Some(s_7) }

\* An entry with the given tag, description, statement text, namespace /
\* owner and the given value in every field the rewrite does not look at.
MkEntry(tag, desc, body, ident, extra) ==
    [ dump_id |-> 7, had_dumper |-> 0,
      table_oid |-> extra, catalog_oid |-> extra,
      tag |-> tag, description |-> desc, section |-> -1,
      defn |-> body, drop_stmt |-> body, copy_stmt |-> body,
      namespace |-> ident, tablespace |-> extra, tableam |-> extra,
      owner |-> ident, table_with_oids |-> extra,
      deps |-> IF extra.some THEN <<s_7, s_12>> ELSE <<>>,
      filename |-> IF extra = Some(s_7) THEN Some(s_1dat) ELSE extra ]

SchemaEntry(db) == MkEntry(Some(db \o s_dbo), Some(s_SCHEMA), None, None, None)

EntryPool ==
    { MkEntry(tag, Some(s_TABLE), body, None, None) : tag \in Tags, body \in Bodies }
      \cup { MkEntry(tag, desc, None, None, None) : tag \in Tags, desc \in Descs }
      \cup { MkEntry(Some(s_t1), Some(s_TABLE), None, ident, extra) :
               ident \in Idents, extra \in Extras }
      \cup { MkEntry(Some(s_t1), Some(s_TABLE), None, Some(Acme \o s_dbo),
                     Some(Acme \o s_dbo)) }

\* Entries before and after the entry under test: none, or schema entries
\* from which the original name is found.
MaxPad == 1
RECURSIVE Pad(_)
Pad(n) == IF n = 0 THEN <<>> ELSE <<SchemaEntry(Acme)>> \o Pad(n - 1)
Pads == { Pad(n) : n \in 0..MaxPad }

\* A header as pg_dump writes it in June: 2024-06-15 10:20:30.
GoodHeader ==
    [ magic |-> PGDMP, version |-> <<1, 14, 0>>, flags |-> <<4, 8, 3>>,
      comp |-> -1, ts |-> <<30, 20, 10, 15, 5, 124, 0>>,
      dbname |-> Some(Acme), ver_server |-> Some(<<49, 53>>),
      ver_dump |-> Some(<<49, 53>>) ]

\* Headers differing from GoodHeader in one part.
Versions == { <<ma, mi, 0>> : ma \in {1, 2}, mi \in {13, 14} } \cup { <<1, 14, 9>> }
\* <<day, tm_mon>>: 15 Jan, 31 Mar, 29 Feb, 31 Dec, 30 Nov of 2024
Dates == { <<15, 0>>, <<31, 2>>, <<29, 1>>, <<31, 11>>, <<30, 10>> }
HeaderPool ==
    { [GoodHeader EXCEPT !.version = v] : v \in Versions }
      \cup { [GoodHeader EXCEPT !.magic = <<80, 71, 68, 77, 80 + d>>] : d \in {0, 1} }
      \cup { [GoodHeader EXCEPT !.flags = f] :
               f \in { <<4, 8, 3>>, <<8, 8, 3>>, <<4, 4, 3>>, <<4, 8, 1>>,
                       <<8, 4, 1>>, <<4, 4, 1>>, <<8, 8, 1>> } }
      \cup { [GoodHeader EXCEPT !.magic = m, !.version = v, !.flags = <<8, 4, 1>>] :
               m \in { PGDMP, <<80, 71, 68, 77, 81>> },
               v \in { <<1, 14, 0>>, <<2, 13, 0>> } }
      \cup { [GoodHeader EXCEPT !.ts = <<30, 20, 10, dm[1], dm[2], 124, 0>>] : dm \in Dates }
      \cup { [GoodHeader EXCEPT !.dbname = d] : d \in { None, Some(<<>>) } }

Bolts == <<98, 111, 108, 116, 115>>          \* "bolts"
NewNames == { Acme, Bolt, Bolts }

\* The entries of the tracked tables' data, and their files "1.dat".."4.dat".
s_TABLE_DATA == <<84, 65, 66, 76, 69, 32, 68, 65, 84, 65>>
s_dat == <<46, 100, 97, 116>>
s_toc_dat == <<116, 111, 99, 46, 100, 97, 116>>
s_toc_rewritten_dat == <<116, 111, 99, 95, 114, 101, 119, 114, 105, 116, 116, 101, 110, 46, 100, 97, 116>>
DataFile(k) == <<48 + k>> \o s_dat
TableEntry(k) ==
    [ MkEntry(Some(TrackedTables[k]), Some(s_TABLE_DATA), None, None, None)
        EXCEPT !.filename = Some(DataFile(k)) ]
RECURSIVE TableEntries(_)
TableEntries(n) == IF n = 0 THEN <<>> ELSE Append(TableEntries(n - 1), TableEntry(n))

\* What a data file holds: "acme_dbo<TAB>xacme<TAB>acme<LF>x<LF>", "acme<CR><LF>x"
\* with no line end after the last line, a line that is not UTF-8, nothing.
DataContents ==
    { Acme \o s_dbo \o <<9>> \o s_x \o Acme \o <<9>> \o Acme \o <<10>> \o s_x \o <<10>>,
      Acme \o <<13, 10>> \o s_x,
      Acme \o <<10>> \o s_bad \o <<10>>,
      <<>> }

\* The paths of the directory.
TocPath == <<s_toc_dat, "">>
TocRewrittenPath == <<s_toc_rewritten_dat, "">>
TocOrigPath == <<s_toc_dat, ".orig">>
DataFiles == { DataFile(k) : k \in 1..Len(TrackedTables) }
Paths ==
    { TocPath, TocRewrittenPath, TocOrigPath }
      \cup { SrcPath(f) : f \in DataFiles }
      \cup { DestPath(f) : f \in DataFiles }
      \cup { OrigPath(f) : f \in DataFiles }

\* The data files an input TOC names.
FilesOf(t) ==
    { t.entries[i].filename.bytes : i \in 1..Len(t.entries) } \cap DataFiles

\* The unpacked directory: toc.dat and the data files the TOC names.
InitFiles(t, data) ==
    [ p \in Paths |->
        IF p = TocPath THEN Some(EncToc(t))
        ELSE IF p[2] = "" /\ p[1] \in FilesOf(t) THEN Some(data)
        ELSE None ]

\* A table of the schema {db}_dbo, its definition naming the schema.
RefEntry ==
    MkEntry(Some(s_t1), Some(s_TABLE), Some(s_e_acute \o QualRef(Acme)),
            Some(Acme \o s_dbo), None)

TocInputs ==
    { [header |-> GoodHeader, entries |-> pre \o <<e>> \o post] :
        pre \in Pads, e \in EntryPool, post \in Pads }
      \cup { [header |-> GoodHeader, entries |-> pre \o TableEntries(n)] :
               pre \in Pads, n \in {2, Len(TrackedTables)} }
      \cup { [header |-> h, entries |-> es] :
               h \in HeaderPool, es \in { <<>>, <<SchemaEntry(Acme)>> } }
      \cup { [header |-> GoodHeader, entries |-> es \o TableEntries(Len(TrackedTables))] :
               es \in { <<RefEntry, SchemaEntry(Acme)>>, <<SchemaEntry(Acme), RefEntry>> } }

\* A TOC file read with the readers of rewrite_toc: copy_header, the entry
\* count, and read_toc_entry for each of the first n entries (all of them
\* with n = -1).  [st, count, entries, pos].
RECURSIVE ParseEntries(_, _, _, _, _)
ParseEntries(src, rw, n, oc, acc) ==
    IF n = 0 THEN [st |-> "ok", entries |-> acc, pos |-> rw.pos]
    ELSE The({ IF r.st # "ok" THEN [st |-> r.st, entries |-> acc, pos |-> rw.pos]
               ELSE ParseEntries(src, r, n - 1, oc, Append(acc, r.val)) :
               r \in { read_toc_entry(src, [rw EXCEPT !.out = <<>>], oc) } })

ParseToc(src, n, oc) ==
    The({ IF c.st # "ok" THEN [st |-> c.st, count |-> 0, entries |-> <<>>, pos |-> c.pos]
          ELSE The({ [st |-> p.st, count |-> c.val, entries |-> p.entries, pos |-> p.pos] :
                     p \in { ParseEntries(src, c, IF n < 0 THEN c.val ELSE n, oc, <<>>) } }) :
          c \in { copy_int(src, copy_header(src, RW0, oc), oc) } })

----------------------------------------------------------------------------
(* zip_directory: the archive packager (src/src/common/zip_dir.rs)         *)

\* A path is the sequence of its components.  A directory tree is given by
\* [is_dir, walk]: whether the path names a directory, and the entries
\* WalkDir yields for it, the root first, each [path, kind, readable].
parent(path) == SubSeq(path, 1, Len(path) - 1)
strip_prefix(path, base) == SubSeq(path, Len(base) + 1, Len(path))

\* A zip file: [exists, method, entries, finish_called]; an entry is
\* <<name, "file" | "dir">>.
NoArchive == [exists |-> FALSE, method |-> "", entries |-> <<>>, finish_called |-> FALSE]
NewArchive(method) ==
    [exists |-> TRUE, method |-> method, entries |-> <<>>, finish_called |-> FALSE]

\* zip_dir_iter's loop from the k-th entry on: a file is started in the
\* archive, then opened and read (an unreadable file ends the call with
\* the error, its entry started); a directory is added unless its name is
\* empty; zip.finish() after the last entry.
RECURSIVE zip_dir_iter(_, _, _, _)
zip_dir_iter(walk, prefix, zip, k) ==
    IF k > Len(walk) THEN [st |-> "ok", zip |-> [zip EXCEPT !.finish_called = TRUE]]
    ELSE The({
      IF walk[k].kind = "file"
        THEN IF walk[k].readable
               THEN zip_dir_iter(walk, prefix,
                        [zip EXCEPT !.entries = Append(@, <<name, "file">>)], k + 1)
               ELSE [st |-> "err",
                     zip |-> [zip EXCEPT !.entries = Append(@, <<name, "file">>)]]
        ELSE IF name # <<>>
               THEN zip_dir_iter(walk, prefix,
                        [zip EXCEPT !.entries = Append(@, <<name, "dir">>)], k + 1)
               ELSE zip_dir_iter(walk, prefix, zip, k + 1) :
      name \in { strip_prefix(walk[k].path, parent(prefix)) } })

\* zip_directory(src_dir, dst_file, comp_level): src is the tree at src_dir
\* (prefix its path), dst the file at dst_file before the call, level the
\* comp_level, create_ok whether File::create succeeds.  Returns [st, dst]; st is "ok", "err" or
\* "panic".
zip_directory(src, prefix, dst, level, create_ok) ==
    IF ~src.is_dir THEN [st |-> "err", dst |-> dst]
    ELSE IF level # 0 THEN [st |-> "panic", dst |-> dst]
    ELSE IF ~create_ok THEN [st |-> "panic", dst |-> dst]
    ELSE The({ [st |-> r.st, dst |-> r.zip] :
               r \in { zip_dir_iter(src.walk, prefix, NewArchive("Stored"), 1) } })

----------------------------------------------------------------------------
(* Idle values: what a specification leaves the other parts at             *)

vars == <<overflow_checks, intVars, tocVars, restoreVars, envVars, zipVars,
          backupVars, dialogVars, streamVars>>

NoEntry == MkEntry(None, None, None, None, None)

IntIdle ==
    /\ ipc = "idle" /\ iv = 0 /\ ibuf = <<>> /\ ires = 0 /\ ioverflow = FALSE

TocIdle ==
    /\ toc_in = [header |-> GoodHeader, entries |-> <<>>]
    /\ toc_src = <<>> /\ dbname = <<>>
    /\ tpc = "idle" /\ toc_res = "running" /\ toc_err = ""
    /\ rpos = 1 /\ toc_dest = <<>> /\ toc_count = 0 /\ idx = 0
    /\ orig_dbname = <<>> /\ map = {}
    /\ last_in = NoEntry /\ last_out = NoEntry /\ last_orig = <<>>
    /\ files = [p \in Paths |-> None] /\ files0 = files /\ tbl_i = 0

RestoreIdle ==
    /\ rpc = "idle" /\ dest_db_name = "" /\ db_list = {}
    /\ pg_roles = {} /\ pre_roles = {} /\ granted = {}
    /\ role_i = 0 /\ res = <<>> /\ roles = <<>> /\ drop_i = 0
    /\ drop_issued = {} /\ dropped = {} /\ created = {}
    /\ dir = "none" /\ rewritten = FALSE
    /\ rewrite_toc = "no" /\ remove_dir_all = "no"
    /\ pg_restore = "no" /\ pg_restore_err = ""
    /\ result = [done |-> FALSE, error |-> ""]
    /\ progress = <<>>

\* A variable of the environment: not set, or set to a value.
EnvUnset == [set |-> FALSE, value |-> ""]
EnvSet(v) == [set |-> TRUE, value |-> v]

NoChild == [program |-> "", by |-> "", PGPASSWORD |-> EnvUnset]

EnvIdle ==
    /\ password = "" /\ env = EnvUnset /\ child = NoChild /\ nruns = 0

BackupIdle ==
    /\ bpc = "idle" /\ dest_filename = <<>> /\ dest_dir = <<>> /\ bfilename = <<>>
    /\ bdirs = <<>> /\ bfiles = <<>> /\ bfiles0 = <<>> /\ bsent = <<>>
    /\ bresult = [done |-> FALSE, error |-> ""]
    /\ pg_dump = "no" /\ zip_st = "no" /\ complete_sent = 0 /\ brun = 0
    /\ used_dirs = {}

DialogIdle ==
    /\ wpc = "idle" /\ wres = "none" /\ nsent = 0 /\ now = 0 /\ skew = 0 /\ start = 0
    /\ ret_at = -1 /\ sent_at = -1 /\ complete_count = 0 /\ events = <<>> /\ chan = <<>>
    /\ ui = "idle" /\ progress_pending = <<>> /\ progress_last_updated = 0
    /\ details = <<>> /\ received = <<>> /\ dialog_result = "none"
    /\ complete_handled = 0

StreamIdle ==
    /\ stream_tool = "none" /\ stream_out = <<>> /\ stream_pos = 1
    /\ stream_sent = <<>> /\ stream_res = "ok"

ZipIdle ==
    /\ zpc = "idle" /\ src_dir = [is_dir |-> FALSE, walk |-> <<>>] /\ comp_level = 0
    /\ dst_file = NoArchive /\ dst_file0 = NoArchive /\ zip_result = "none"

----------------------------------------------------------------------------
(* SpecToc: rewrite_toc's pass over toc.dat                                *)

InitToc ==
    /\ overflow_checks \in BOOLEAN
    /\ IntIdle
    /\ RestoreIdle
    /\ toc_in \in TocInputs
    /\ toc_src = EncToc(toc_in)
    /\ dbname \in NewNames
    /\ tpc = "header" /\ toc_res = "running" /\ toc_err = ""
    /\ rpos = 1 /\ toc_dest = <<>> /\ toc_count = 0 /\ idx = 0
    /\ orig_dbname = <<>> /\ map = {}
    /\ last_in = NoEntry /\ last_out = NoEntry /\ last_orig = <<>>
    /\ files \in { InitFiles(toc_in, data) :
                    data \in IF FilesOf(toc_in) = {} THEN { <<>> } ELSE DataContents }
    /\ files0 = files
    /\ tbl_i = 0
    /\ EnvIdle /\ ZipIdle /\ BackupIdle /\ DialogIdle /\ StreamIdle

\* The reader / writer pair at the reader's current position.
RwNow == [RW0 EXCEPT !.pos = rpos]

\* What every step of rewrite_toc's pass does with the outcome r of its
\* calls: the bytes written are in the BufWriter on toc_rewritten.dat (the
\* file File::create made stays empty, the TOCs here being shorter than the
\* buffer), the reader has moved, and an error or a panic ends rewrite_toc,
\* which drops the writer: the bytes written reach the file.
Outcome(r) ==
    /\ toc_dest' = toc_dest \o r.out
    /\ rpos' = r.pos
    /\ toc_res' = IF r.st = "ok" THEN "running" ELSE r.st
    /\ toc_err' = r.err
    /\ files' = [files EXCEPT ![TocRewrittenPath] =
                    IF r.st = "ok" THEN Some(<<>>) ELSE Some(toc_dest \o r.out)]

\* copy_header(&mut reader, &mut writer)?
TocCopyHeader ==
    /\ tpc = "header" /\ toc_res = "running"
    /\ \E r \in { copy_header(toc_src, RwNow, overflow_checks) } :
          /\ Outcome(r)
          /\ tpc' = IF r.st = "ok" THEN "count" ELSE tpc
    /\ UNCHANGED <<toc_in, toc_src, dbname, toc_count, idx, orig_dbname, map,
                   last_in, last_out, last_orig, files0, tbl_i, overflow_checks, intVars, restoreVars, envVars, zipVars, backupVars, dialogVars, streamVars>>

\* let toc_count = copy_int(&mut reader, &mut writer)?
TocCopyCount ==
    /\ tpc = "count" /\ toc_res = "running"
    /\ \E r \in { copy_int(toc_src, RwNow, overflow_checks) } :
          /\ Outcome(r)
          /\ tpc' = IF r.st = "ok" THEN "entries" ELSE tpc
          /\ toc_count' = IF r.st = "ok" THEN r.val ELSE toc_count
    /\ UNCHANGED <<toc_in, toc_src, dbname, idx, orig_dbname, map,
                   last_in, last_out, last_orig, files0, tbl_i, overflow_checks, intVars, restoreVars, envVars, zipVars, backupVars, dialogVars, streamVars>>

\* One iteration of `for _ in 0..toc_count`: read the entry, find the
\* original name, record the data file, modify, write.
TocEntry ==
    /\ tpc = "entries" /\ toc_res = "running"
    /\ idx < toc_count
    /\ \E r \in { read_toc_entry(toc_src, RwNow, overflow_checks) } :
          IF r.st # "ok"
            THEN /\ Outcome(r)
                 /\ UNCHANGED <<idx, orig_dbname, map, last_in, last_out, last_orig>>
            ELSE \E orig \in { detect_orig_dbname(r.val, orig_dbname) } :
                 \E te2 \in { modify_toc_entry(r.val, orig, dbname) } :
                 \E w \in { write_toc_entry(r, te2, overflow_checks) } :
                    /\ Outcome(w)
                    /\ orig_dbname' = orig
                    /\ map' = map_insert(map, r.val)
                    /\ last_in' = r.val
                    /\ last_out' = te2
                    /\ last_orig' = orig
                    /\ idx' = IF w.st = "ok" THEN idx + 1 ELSE idx
    /\ UNCHANGED <<toc_in, toc_src, dbname, tpc, toc_count, files0, tbl_i, overflow_checks, intVars, restoreVars, envVars, zipVars, backupVars, dialogVars, streamVars>>

\* The loop is over: rewrite_toc goes on to the data files.
TocPassEnd ==
    /\ tpc = "entries" /\ toc_res = "running"
    /\ idx >= toc_count
    /\ tpc' = "tables"
    /\ UNCHANGED <<toc_in, toc_src, dbname, toc_res, toc_err, rpos, toc_dest,
                   toc_count, idx, orig_dbname, map, last_in, last_out, last_orig,
                   files, files0, tbl_i, overflow_checks, intVars, restoreVars, envVars, zipVars, backupVars, dialogVars, streamVars>>

\* rewrite_toc returns the error msg: the writer is dropped on the way.
TocFail(d, msg) ==
    /\ toc_res' = "err"
    /\ toc_err' = msg
    /\ files' = [d EXCEPT ![TocRewrittenPath] = Some(toc_dest)]

\* rewrite_dbname_in_tables: the next of the four tables, map.get and
\* rewrite_table.
TocTable ==
    /\ tpc = "tables" /\ toc_res = "running"
    /\ \E f \in { map_get(map, TrackedTables[tbl_i + 1]) } :
          IF ~f.some
            THEN /\ TocFail(files, "Table not found")
                 /\ UNCHANGED <<tpc, tbl_i>>
            ELSE \E io \in {"none", "open", "rename_orig", "rename_new"} :
                 \E r \in { rewrite_table(files, f.bytes, orig_dbname, dbname, io) } :
                    IF r.st # "ok"
                      THEN /\ TocFail(r.files, r.err)
                           /\ UNCHANGED <<tpc, tbl_i>>
                      ELSE /\ files' = r.files
                           /\ tbl_i' = tbl_i + 1
                           /\ tpc' = IF tbl_i + 1 = Len(TrackedTables)
                                       THEN "rename_orig" ELSE tpc
                           /\ UNCHANGED <<toc_res, toc_err>>
    /\ UNCHANGED <<toc_in, toc_src, dbname, rpos, toc_dest, toc_count, idx,
                   orig_dbname, map, last_in, last_out, last_orig, files0,
                   overflow_checks, intVars, restoreVars, envVars, zipVars, backupVars, dialogVars, streamVars>>

\* fs::rename(&toc_src_path, &toc_orig_path)?
TocRenameOrig ==
    /\ tpc = "rename_orig" /\ toc_res = "running"
    /\ \E ok \in BOOLEAN :
          IF ok
            THEN /\ files' = rename(files, TocPath, TocOrigPath)
                 /\ tpc' = "rename_new"
                 /\ UNCHANGED <<toc_res, toc_err>>
            ELSE /\ TocFail(files, "rename")
                 /\ UNCHANGED tpc
    /\ UNCHANGED <<toc_in, toc_src, dbname, rpos, toc_dest, toc_count, idx,
                   orig_dbname, map, last_in, last_out, last_orig, files0, tbl_i,
                   overflow_checks, intVars, restoreVars, envVars, zipVars, backupVars, dialogVars, streamVars>>

\* fs::rename(&toc_dest_path, &toc_src_path)?; Ok(()).  On the return the
\* writer is dropped: its bytes are written to the file, now toc.dat, and a
\* failure of that write is ignored.
TocRenameNew ==
    /\ tpc = "rename_new" /\ toc_res = "running"
    /\ \E ok \in BOOLEAN, flush_ok \in BOOLEAN :
          IF ok
            THEN /\ files' = [rename(files, TocRewrittenPath, TocPath)
                               EXCEPT ![TocPath] =
                                 IF flush_ok THEN Some(toc_dest) ELSE Some(<<>>)]
                 /\ tpc' = "done"
                 /\ toc_res' = "ok"
                 /\ UNCHANGED toc_err
            ELSE /\ TocFail(files, "rename")
                 /\ UNCHANGED tpc
    /\ UNCHANGED <<toc_in, toc_src, dbname, rpos, toc_dest, toc_count, idx,
                   orig_dbname, map, last_in, last_out, last_orig, files0, tbl_i,
                   overflow_checks, intVars, restoreVars, envVars, zipVars, backupVars, dialogVars, streamVars>>

NextToc ==
    \/ TocCopyHeader \/ TocCopyCount \/ TocEntry \/ TocPassEnd
    \/ TocTable \/ TocRenameOrig \/ TocRenameNew

SpecToc == InitToc /\ [][NextToc]_vars

----------------------------------------------------------------------------
(* SpecInt: write_int then read_int on one i32                             *)

\* Every power of two of the i32 range, its neighbour, both signs, and the
\* two ends of the range.
IntInputs ==
    UNION { { Pow2(k) - 1, Pow2(k), -(Pow2(k) - 1), -Pow2(k) } : k \in 0..30 }
      \cup { I32Max, I32Min, 0 }

InitInt ==
    /\ overflow_checks \in BOOLEAN
    /\ ipc = "start"
    /\ iv \in IntInputs
    /\ ibuf = <<>>
    /\ ires = 0
    /\ ioverflow = FALSE
    /\ TocIdle
    /\ RestoreIdle
    /\ EnvIdle /\ ZipIdle /\ BackupIdle /\ DialogIdle /\ StreamIdle

IntWrite ==
    /\ ipc = "start"
    /\ LET w == write_int(iv, overflow_checks)
       IN  /\ ipc' = IF w.st = "ok" THEN "written" ELSE "panic"
           /\ ibuf' = w.bytes
           /\ ioverflow' = w.ovf
    /\ UNCHANGED <<iv, ires, overflow_checks, tocVars, restoreVars, envVars, zipVars, backupVars, dialogVars, streamVars>>

IntRead ==
    /\ ipc = "written"
    /\ LET r == read_int(ibuf, 1, overflow_checks)
       IN  /\ ipc' = IF r.st = "ok" THEN "read" ELSE "panic"
           /\ ires' = r.val
           /\ ioverflow' = (ioverflow \/ r.ovf)
    /\ UNCHANGED <<iv, ibuf, overflow_checks, tocVars, restoreVars, envVars, zipVars, backupVars, dialogVars, streamVars>>

NextInt == IntWrite \/ IntRead

SpecInt == InitInt /\ [][NextInt]_vars

----------------------------------------------------------------------------
(* SpecRestore: RestoreDialog::run_restore                                 *)
(*                                                                         *)
(* The database, the archive, rewrite_toc (SpecToc has its detail) and     *)
(* pg_restore are the environment: each call on them succeeds or fails.    *)
(* A role name format!("{}_{}", dbname, role) is the pair <<dbname, role>>.*)

\* The roles of restore_global_data's loop, in its order.
RoleSuffixes == <<"db_owner", "dbo", "guest">>
rolname(db, role) == <<db, role>>
RoleSet(db) == { rolname(db, RoleSuffixes[i]) : i \in 1..Len(RoleSuffixes) }
\* The GRANT statements of restore_global_data, in its order: <<role, to>>.
GrantStmts ==
    << <<"db_owner", "dbo">>, <<"dbo", "sysadmin">>,
       <<"guest", "sysadmin">>, <<"guest", "db_owner">> >>

\* str::to_lowercase on the names used below.
to_lowercase(n) ==
    CASE n = "ACME" -> "acme"
      [] n = "Acme" -> "acme"
      [] OTHER -> n

\* A variant of db_exists that finds no name.
db_exists_unchecked(names, dest) == FALSE

\* The loop of check_db_does_not_exist over the rows of the query: whether
\* a row's name equals the destination name, both lowercased.
db_exists(names, dest) ==
    \E name \in names : to_lowercase(name) = to_lowercase(dest)

\* A variant of create_role_if_not_exist that returns the name of a role
\* that already existed.
create_role_always_reported(pg, rn, create_ok) ==
    [st |-> "ok", pg |-> pg \cup {rn}, ret |-> <<rn>>]

\* A variant of create_role_if_not_exist that creates without looking at
\* the answer of its query.
create_role_without_check(pg, rn, create_ok) ==
    IF create_ok
      THEN [st |-> "ok", pg |-> pg \cup {rn}, ret |-> <<rn>>]
      ELSE [st |-> "err", pg |-> pg, ret |-> <<>>]

\* create_role_if_not_exist(client, dbname, role) once its query has
\* answered: CREATE ROLE only when no such role exists, and the name is
\* returned only when the role was created.
create_role_if_not_exist(pg, rn, create_ok) ==
    IF ~(rn \in pg)
      THEN IF create_ok
             THEN [st |-> "ok", pg |-> pg \cup {rn}, ret |-> <<rn>>]
             ELSE [st |-> "err", pg |-> pg, ret |-> <<>>]
      ELSE [st |-> "ok", pg |-> pg, ret |-> <<>>]

\* The loop of restore_global_data from the i-th role on, every statement
\* succeeding: the roles of the database afterwards and the list returned.
RECURSIVE provision_roles(_, _, _, _)
provision_roles(pg, db, i, acc) ==
    IF i > Len(RoleSuffixes) THEN [pg |-> pg, ret |-> acc]
    ELSE The({ provision_roles(c.pg, db, i + 1, acc \o c.ret) :
               c \in { create_role_if_not_exist(pg, rolname(db, RoleSuffixes[i]), TRUE) } })

DestNames == { "acme", "Acme" }
DbLists == { {"master"}, {"master", "acme"}, {"master", "ACME"}, {"master", "bolt"} }

InitRestore ==
    /\ overflow_checks = FALSE
    /\ IntIdle
    /\ TocIdle
    /\ rpc = "check"
    /\ dest_db_name \in DestNames
    /\ db_list \in DbLists
    /\ pre_roles \in SUBSET RoleSet(dest_db_name)
    /\ pg_roles = pre_roles
    /\ granted = {}
    /\ role_i = 0 /\ res = <<>> /\ roles = <<>> /\ drop_i = 0
    /\ drop_issued = {} /\ dropped = {} /\ created = {}
    /\ dir = "none" /\ rewritten = FALSE
    /\ rewrite_toc = "no" /\ remove_dir_all = "no"
    /\ pg_restore = "no" /\ pg_restore_err = ""
    /\ result = [done |-> FALSE, error |-> ""]
    /\ progress = <<>>
    /\ EnvIdle /\ ZipIdle /\ BackupIdle /\ DialogIdle /\ StreamIdle

\* return RestoreResult::failure(e)
Failure(e) ==
    /\ result' = [done |-> TRUE, error |-> e]
    /\ rpc' = "done"

\* progress.send_value(line) for each line of lines
Send(lines) == progress' = progress \o lines

\* The first send, and check_db_does_not_exist: open, query, scan, close.
RCheck ==
    /\ rpc = "check"
    /\ \E outcome \in {"open_err", "query_err", "close_err", "ok"} :
          IF outcome \in {"open_err", "query_err"}
            THEN /\ Send(<<"Running restore into DB">>)
                 /\ Failure("db error")
          ELSE IF db_exists(db_list, dest_db_name)
            THEN /\ Send(<<"Running restore into DB">>)
                 /\ Failure("Database with name already exists")
          ELSE IF outcome = "close_err"
            THEN /\ Send(<<"Running restore into DB">>)
                 /\ Failure("db error")
          ELSE /\ Send(<<"Running restore into DB", "Unzipping file">>)
               /\ rpc' = "unzip"
               /\ UNCHANGED result
    /\ UNCHANGED <<dest_db_name, db_list, pg_roles, pre_roles, granted, role_i, res,
                   roles, drop_i, drop_issued, dropped, created, dir, rewritten,
                   rewrite_toc, remove_dir_all, pg_restore,
                   pg_restore_err, overflow_checks, intVars, tocVars, envVars, zipVars, backupVars, dialogVars, streamVars>>

\* unzip_file: a failed extraction may leave part of the directory behind.
RUnzip ==
    /\ rpc = "unzip"
    /\ \E ok \in BOOLEAN :
          IF ok
            THEN /\ dir' = "present"
                 /\ Send(<<"Updating DB name">>)
                 /\ rpc' = "rewrite"
                 /\ UNCHANGED result
            ELSE /\ dir' \in {"none", "partial"}
                 /\ Failure("Unzip error")
                 /\ UNCHANGED progress
    /\ UNCHANGED <<dest_db_name, db_list, pg_roles, pre_roles, granted, role_i, res,
                   roles, drop_i, drop_issued, dropped, created, rewritten,
                   rewrite_toc, remove_dir_all, pg_restore,
                   pg_restore_err, overflow_checks, intVars, tocVars, envVars, zipVars, backupVars, dialogVars, streamVars>>

\* A variant of RRewrite that goes on to the roles when rewrite_toc failed.
RRewrite_failure_ignored ==
    /\ rpc = "rewrite"
    /\ rewritten' = TRUE
    /\ \E ok \in BOOLEAN :
          /\ rewrite_toc' = IF ok THEN "ok" ELSE "err"
          /\ Send(<<"Restoring roles">>)
          /\ rpc' = "roles_open"
          /\ UNCHANGED result
    /\ UNCHANGED <<dest_db_name, db_list, pg_roles, pre_roles, granted, role_i, res,
                   roles, drop_i, drop_issued, dropped, created, dir,
                   remove_dir_all, pg_restore, pg_restore_err,
                   overflow_checks, intVars, tocVars, envVars, zipVars, backupVars, dialogVars, streamVars>>

\* pgdump_toc_rewrite::rewrite_toc(&toc_path, &ra.dest_db_name)
RRewrite ==
    /\ rpc = "rewrite"
    /\ rewritten' = TRUE
    /\ \E ok \in BOOLEAN :
          IF ok
            THEN /\ rewrite_toc' = "ok"
                 /\ Send(<<"Restoring roles">>)
                 /\ rpc' = "roles_open"
                 /\ UNCHANGED result
            ELSE /\ rewrite_toc' = "err"
                 /\ Failure("rewrite error")
                 /\ UNCHANGED progress
    /\ UNCHANGED <<dest_db_name, db_list, pg_roles, pre_roles, granted, role_i, res,
                   roles, drop_i, drop_issued, dropped, created, dir,
                   remove_dir_all, pg_restore,
                   pg_restore_err, overflow_checks, intVars, tocVars, envVars, zipVars, backupVars, dialogVars, streamVars>>

\* restore_global_data: open_connection_to_db
RRolesOpen ==
    /\ rpc = "roles_open"
    /\ \E ok \in BOOLEAN :
          IF ok
            THEN /\ rpc' = "role" /\ role_i' = 0 /\ res' = <<>>
                 /\ UNCHANGED result
            ELSE /\ Failure("db error")
                 /\ UNCHANGED <<role_i, res>>
    /\ UNCHANGED <<dest_db_name, db_list, pg_roles, pre_roles, granted,
                   roles, drop_i, drop_issued, dropped, created, dir, rewritten,
                   rewrite_toc, remove_dir_all, pg_restore,
                   pg_restore_err, progress, overflow_checks, intVars, tocVars, envVars, zipVars, backupVars, dialogVars, streamVars>>

\* restore_global_data: one iteration of the loop over the three roles.
RRole ==
    /\ rpc = "role"
    /\ \E query_ok \in BOOLEAN, create_ok \in BOOLEAN :
          IF ~query_ok
            THEN /\ Failure("db error")
                 /\ UNCHANGED <<pg_roles, created, res, role_i>>
          ELSE \E c \in { create_role_if_not_exist(
                            pg_roles, rolname(dest_db_name, RoleSuffixes[role_i + 1]),
                            create_ok) } :
                 IF c.st # "ok"
                   THEN /\ Failure("db error")
                        /\ UNCHANGED <<pg_roles, created, res, role_i>>
                   ELSE /\ created' = created \cup (c.pg \ pg_roles)
                        /\ pg_roles' = c.pg
                        /\ res' = res \o c.ret
                        /\ role_i' = role_i + 1
                        /\ rpc' = IF role_i + 1 = Len(RoleSuffixes) THEN "grant" ELSE "role"
                        /\ UNCHANGED result
    /\ UNCHANGED <<dest_db_name, db_list, pre_roles, granted,
                   roles, drop_i, drop_issued, dropped, dir, rewritten,
                   rewrite_toc, remove_dir_all, pg_restore,
                   pg_restore_err, progress, overflow_checks, intVars, tocVars, envVars, zipVars, backupVars, dialogVars, streamVars>>

\* restore_global_data: the next of the four GRANT statements.
RGrant ==
    /\ rpc = "grant"
    /\ \E ok \in BOOLEAN :
          IF ok
            THEN /\ granted' = granted \cup { Cardinality(granted) + 1 }
                 /\ rpc' = IF Cardinality(granted) + 1 = Len(GrantStmts)
                             THEN "roles_close" ELSE "grant"
                 /\ UNCHANGED result
            ELSE /\ Failure("db error")
                 /\ UNCHANGED granted
    /\ UNCHANGED <<dest_db_name, db_list, pg_roles, pre_roles, role_i, res,
                   roles, drop_i, drop_issued, dropped, created, dir, rewritten,
                   rewrite_toc, remove_dir_all, pg_restore,
                   pg_restore_err, progress, overflow_checks, intVars, tocVars, envVars, zipVars, backupVars, dialogVars, streamVars>>

\* restore_global_data: client.close()?; Ok(res)
RRolesClose ==
    /\ rpc = "roles_close"
    /\ \E ok \in BOOLEAN :
          IF ok
            THEN /\ roles' = res
                 /\ Send(<<"Running pg_restore">>)
                 /\ rpc' = "pg_restore"
                 /\ UNCHANGED result
            ELSE /\ Failure("db error")
                 /\ UNCHANGED <<roles, progress>>
    /\ UNCHANGED <<dest_db_name, db_list, pg_roles, pre_roles, granted, role_i, res,
                   drop_i, drop_issued, dropped, created, dir, rewritten,
                   rewrite_toc, remove_dir_all, pg_restore,
                   pg_restore_err, overflow_checks, intVars, tocVars, envVars, zipVars, backupVars, dialogVars, streamVars>>

\* run_pg_restore, and what run_restore does at once with its outcome.
RPgRestore ==
    /\ rpc = "pg_restore"
    /\ \E ok \in BOOLEAN :
          IF ok
            THEN /\ pg_restore' = "ok"
                 /\ Send(<<"Cleaning up temp directory">>)
                 /\ rpc' = "cleanup"
                 /\ UNCHANGED <<result, pg_restore_err, drop_i>>
          ELSE IF Len(roles) > 0
            THEN /\ pg_restore' = "err"
                 /\ pg_restore_err' = "pg_restore process failure"
                 /\ Send(<<"Error: restore failed, cleaning up global roles we created">>)
                 /\ rpc' = "drop_open"
                 /\ drop_i' = 0
                 /\ UNCHANGED result
            ELSE /\ pg_restore' = "err"
                 /\ pg_restore_err' = "pg_restore process failure"
                 /\ Failure("pg_restore process failure")
                 /\ UNCHANGED <<progress, drop_i>>
    /\ UNCHANGED <<dest_db_name, db_list, pg_roles, pre_roles, granted, role_i, res,
                   roles, drop_issued, dropped, created, dir, rewritten,
                   rewrite_toc, remove_dir_all,
                   overflow_checks, intVars, tocVars, envVars, zipVars, backupVars, dialogVars, streamVars>>

\* A variant of DropFailed that returns the rollback's error.
DropFailed_masks ==
    /\ Send(<<"Error cleaning up global roles">>)
    /\ Failure("db error")

\* drop_created_roles failed: the error is reported on the progress sink and
\* run_restore returns the pg_restore failure.
DropFailed ==
    /\ Send(<<"Error cleaning up global roles">>)
    /\ Failure(pg_restore_err)

\* drop_created_roles: open_connection_to_db
RDropOpen ==
    /\ rpc = "drop_open"
    /\ \E ok \in BOOLEAN :
          IF ok
            THEN /\ rpc' = "drop"
                 /\ UNCHANGED <<result, progress>>
            ELSE DropFailed
    /\ UNCHANGED <<dest_db_name, db_list, pg_roles, pre_roles, granted, role_i, res,
                   roles, drop_i, drop_issued, dropped, created, dir, rewritten,
                   rewrite_toc, remove_dir_all, pg_restore,
                   pg_restore_err, overflow_checks, intVars, tocVars, envVars, zipVars, backupVars, dialogVars, streamVars>>

\* drop_created_roles: one iteration of `for rolname in roles`.
RDrop ==
    /\ rpc = "drop"
    /\ drop_issued' = drop_issued \cup { roles[drop_i + 1] }
    /\ \E ok \in BOOLEAN :
          IF ok
            THEN /\ pg_roles' = pg_roles \ { roles[drop_i + 1] }
                 /\ dropped' = dropped \cup { roles[drop_i + 1] }
                 /\ drop_i' = drop_i + 1
                 /\ rpc' = IF drop_i + 1 = Len(roles) THEN "drop_close" ELSE "drop"
                 /\ UNCHANGED <<result, progress>>
            ELSE /\ DropFailed
                 /\ UNCHANGED <<pg_roles, dropped, drop_i>>
    /\ UNCHANGED <<dest_db_name, db_list, pre_roles, granted, role_i, res,
                   roles, created, dir, rewritten,
                   rewrite_toc, remove_dir_all, pg_restore,
                   pg_restore_err, overflow_checks, intVars, tocVars, envVars, zipVars, backupVars, dialogVars, streamVars>>

\* drop_created_roles: client.close()?, then run_restore's report and return.
RDropClose ==
    /\ rpc = "drop_close"
    /\ \E ok \in BOOLEAN :
          IF ok
            THEN /\ Send(<<"Global roles cleanup complete">>)
                 /\ Failure(pg_restore_err)
            ELSE DropFailed
    /\ UNCHANGED <<dest_db_name, db_list, pg_roles, pre_roles, granted, role_i, res,
                   roles, drop_i, drop_issued, dropped, created, dir, rewritten,
                   rewrite_toc, remove_dir_all, pg_restore,
                   pg_restore_err, overflow_checks, intVars, tocVars, envVars, zipVars, backupVars, dialogVars, streamVars>>

\* A variant of RCleanup that returns a failure when the removal failed.
RCleanup_error_fails ==
    /\ rpc = "cleanup"
    /\ \E ok \in BOOLEAN :
          IF ok
            THEN /\ dir' = "removed"
                 /\ remove_dir_all' = "ok"
                 /\ Send(<<"Restore complete">>)
                 /\ result' = [done |-> TRUE, error |-> ""]
            ELSE /\ dir' = "present"
                 /\ remove_dir_all' = "err"
                 /\ UNCHANGED progress
                 /\ result' = [done |-> TRUE, error |-> "error removing tem directory"]
    /\ rpc' = "done"
    /\ UNCHANGED <<dest_db_name, db_list, pg_roles, pre_roles, granted, role_i, res,
                   roles, drop_i, drop_issued, dropped, created, rewritten,
                   rewrite_toc, pg_restore, pg_restore_err,
                   overflow_checks, intVars, tocVars, envVars, zipVars, backupVars, dialogVars, streamVars>>

\* fs::remove_dir_all(dir), the last send, RestoreResult::success()
RCleanup ==
    /\ rpc = "cleanup"
    /\ \E ok \in BOOLEAN :
          IF ok
            THEN /\ dir' = "removed"
                 /\ remove_dir_all' = "ok"
                 /\ Send(<<"Restore complete">>)
            ELSE /\ dir' = "present"
                 /\ remove_dir_all' = "err"
                 /\ Send(<<"Warning: error removing tem directory", "Restore complete">>)
    /\ result' = [done |-> TRUE, error |-> ""]
    /\ rpc' = "done"
    /\ UNCHANGED <<dest_db_name, db_list, pg_roles, pre_roles, granted, role_i, res,
                   roles, drop_i, drop_issued, dropped, created, rewritten,
                   rewrite_toc, pg_restore,
                   pg_restore_err, overflow_checks, intVars, tocVars, envVars, zipVars, backupVars, dialogVars, streamVars>>

NextRestore ==
    \/ RCheck \/ RUnzip \/ RRewrite
    \/ RRolesOpen \/ RRole \/ RGrant \/ RRolesClose
    \/ RPgRestore \/ RDropOpen \/ RDrop \/ RDropClose
    \/ RCleanup

SpecRestore == InitRestore /\ [][NextRestore]_vars

----------------------------------------------------------------------------
(* SpecEnv: the password on its way to pg_dump and pg_restore              *)

\* The passwords a user connects with, and the runs of one session.
Passwords == {"wilton", "alpha", "beta"}
MaxRuns == 3

\* AppWindow::init sets the password "wilton"; the application starts with
\* an environment that has no PGPASSWORD.
InitEnv ==
    /\ password = "wilton" /\ env = EnvUnset /\ child = NoChild /\ nruns = 0
    /\ overflow_checks \in BOOLEAN
    /\ IntIdle /\ TocIdle /\ RestoreIdle /\ ZipIdle /\ BackupIdle /\ DialogIdle /\ StreamIdle

\* AppWindow::await_connect_dialog: the connection settings the user
\* entered become the window's pg_conn_config.
AwaitConnectDialog ==
    /\ \E pw \in Passwords : password' = pw
    /\ UNCHANGED <<env, child, nruns, overflow_checks, intVars, tocVars, restoreVars, zipVars, backupVars, dialogVars, streamVars>>

\* BackupDialog::run_command: env::set_var on the application's own
\* environment, then pg_dump is spawned and inherits that environment.
BackupRunCommand ==
    /\ nruns < MaxRuns
    /\ env' = EnvSet(password)
    /\ child' = [program |-> "pg_dump", by |-> "backup_dialog", PGPASSWORD |-> env']
    /\ nruns' = nruns + 1
    /\ UNCHANGED <<password, overflow_checks, intVars, tocVars, restoreVars, zipVars, backupVars, dialogVars, streamVars>>

\* RestoreDialog::run_pg_restore: .env("PGPASSWORD", ..) on the command, so
\* only pg_restore's environment has the password.
RestoreRunPgRestore ==
    /\ nruns < MaxRuns
    /\ child' = [program |-> "pg_restore", by |-> "restore_dialog",
                 PGPASSWORD |-> EnvSet(password)]
    /\ nruns' = nruns + 1
    /\ UNCHANGED <<password, env, overflow_checks, intVars, tocVars, restoreVars, zipVars, backupVars, dialogVars, streamVars>>

\* CommandDialog::run_command on a PgCommand the window built with
\* .env_var("PGPASSWORD", ..): env::set_var for each of its env_vars, then
\* the program is spawned and inherits the environment.
CommandRunCommand ==
    /\ nruns < MaxRuns
    /\ \E program \in {"pg_dump", "pg_restore"} :
          /\ env' = EnvSet(password)
          /\ child' = [program |-> program, by |-> "command_dialog", PGPASSWORD |-> env']
    /\ nruns' = nruns + 1
    /\ UNCHANGED <<password, overflow_checks, intVars, tocVars, restoreVars, zipVars, backupVars, dialogVars, streamVars>>

NextEnv ==
    \/ AwaitConnectDialog
    \/ BackupRunCommand \/ RestoreRunPgRestore \/ CommandRunCommand

SpecEnv == InitEnv /\ [][NextEnv]_vars

----------------------------------------------------------------------------
(* SpecZip: zip_directory on single calls                                  *)

\* The directory to pack is out/dump; what is found at that path.
DumpDir == <<"out", "dump">>
WalkEntry(path, kind, readable) == [path |-> path, kind |-> kind, readable |-> readable]
RootEntry == WalkEntry(DumpDir, "dir", TRUE)
SrcTrees ==
    { [is_dir |-> FALSE, walk |-> <<>>],
      [is_dir |-> TRUE, walk |-> <<RootEntry>>],
      [is_dir |-> TRUE, walk |-> <<RootEntry, WalkEntry(DumpDir \o <<"toc.dat">>, "file", TRUE)>>],
      [is_dir |-> TRUE, walk |-> <<RootEntry, WalkEntry(DumpDir \o <<"toc.dat">>, "file", TRUE),
                                   WalkEntry(DumpDir \o <<"1.dat">>, "file", TRUE)>>],
      [is_dir |-> TRUE, walk |-> <<RootEntry, WalkEntry(DumpDir \o <<"toc.dat">>, "file", FALSE)>>],
      [is_dir |-> TRUE, walk |-> <<RootEntry, WalkEntry(DumpDir \o <<"toc.dat">>, "file", TRUE),
                                   WalkEntry(DumpDir \o <<"1.dat">>, "file", FALSE)>>],
      [is_dir |-> TRUE, walk |-> <<RootEntry, WalkEntry(DumpDir \o <<"sub">>, "dir", TRUE),
                                   WalkEntry(DumpDir \o <<"sub", "1.dat">>, "file", TRUE)>>] }

\* The values of comp_level tried, and what is at dst_file before the call.
Levels == {0, 1, 6, 9, 255}
OldArchive ==
    [exists |-> TRUE, method |-> "Stored", entries |-> << <<<<"old">>, "file">> >>,
     finish_called |-> TRUE]

InitZip ==
    /\ zpc = "call"
    /\ src_dir \in SrcTrees
    /\ comp_level \in Levels
    /\ dst_file \in {NoArchive, OldArchive}
    /\ dst_file0 = dst_file
    /\ zip_result = "none"
    /\ overflow_checks \in BOOLEAN
    /\ IntIdle /\ TocIdle /\ RestoreIdle /\ EnvIdle /\ BackupIdle /\ DialogIdle /\ StreamIdle

\* One call of zip_directory; File::create succeeds or fails.
ZipDirectory ==
    /\ zpc = "call"
    /\ \E create_ok \in BOOLEAN :
       \E r \in { zip_directory(src_dir, DumpDir, dst_file, comp_level, create_ok) } :
          /\ zip_result' = r.st
          /\ dst_file' = r.dst
    /\ zpc' = "done"
    /\ UNCHANGED <<src_dir, comp_level, dst_file0, overflow_checks, intVars, tocVars,
                   restoreVars, envVars, backupVars, dialogVars, streamVars>>

NextZip == ZipDirectory

SpecZip == InitZip /\ [][NextZip]_vars

----------------------------------------------------------------------------
(* SpecBackup: the worker thread of BackupDialog, run_backup               *)

s_zip == <<122, 105, 112>>
s_out == <<111, 117, 116>>

\* Path::extension(): the text after the last '.' of a file name, nothing
\* when the name has no '.' or only a leading one.
path_extension(name) ==
    The({ IF dots = {} \/ dots = {1} THEN <<>>
          ELSE SubSeq(name, (CHOOSE k \in dots : \A j \in dots : j <= k) + 1, Len(name)) :
          dots \in { BytesFrom(name, 1, 46) } })

\* prepare_dest_dir's names: [filename, dirname] for a dest_filename.
prepare_names(name) ==
    The({ The({ [filename |-> fe[1],
                 dirname |-> chars_take(fe[1], Len(fe[1]) - (Len(fe[2]) + 1))] :
                fe \in { IF ext = <<>> THEN <<name \o s_dot \o s_zip, s_zip>>
                                       ELSE <<name, ext>> } }) :
          ext \in { path_extension(name) } })

\* The destination file names a user enters: "db.zip", "db", "x.bak".
DestFilenames == { <<100, 98, 46, 122, 105, 112>>, <<100, 98>>, <<120, 46, 98, 97, 107>> }
MaxBackups == 2

DirNames == { prepare_names(f).dirname : f \in DestFilenames }
FileNames == { prepare_names(f).filename : f \in DestFilenames }

\* What is at a directory path: nothing, a directory left by an earlier
\* dump, or what pg_dump writes (toc.dat readable or not).
NoDir == [is_dir |-> FALSE, walk |-> <<>>]
StaleDir(path) == [is_dir |-> TRUE, walk |-> <<WalkEntry(path, "dir", TRUE)>>]
DumpTree(path, readable) ==
    [is_dir |-> TRUE,
     walk |-> <<WalkEntry(path, "dir", TRUE),
                WalkEntry(path \o <<s_toc_dat>>, "file", readable)>>]

\* An archive an earlier backup left at the destination.
OldBackup ==
    [exists |-> TRUE, method |-> "Stored", entries |-> << <<<<s_toc_dat>>, "file">> >>,
     finish_called |-> TRUE]

InitBackup ==
    /\ bpc = "prepare" /\ brun = 1
    /\ dest_filename \in DestFilenames
    /\ dest_dir = <<>> /\ bfilename = <<>>
    /\ \E stale \in [DirNames -> BOOLEAN] :
          bdirs = [d \in DirNames |-> IF stale[d] THEN StaleDir(<<s_out, d>>) ELSE NoDir]
    /\ bfiles \in [FileNames -> {NoArchive, OldBackup}]
    /\ bfiles0 = bfiles
    /\ bsent = <<>>
    /\ bresult = [done |-> FALSE, error |-> ""]
    /\ pg_dump = "no" /\ zip_st = "no" /\ complete_sent = 0
    /\ used_dirs = {}
    /\ overflow_checks \in BOOLEAN
    /\ IntIdle /\ TocIdle /\ RestoreIdle /\ EnvIdle /\ ZipIdle /\ DialogIdle /\ StreamIdle

\* return BackupResult::failure(e)
BFailure(e) ==
    /\ bresult' = [done |-> TRUE, error |-> e]
    /\ bpc' = "returned"

BSend(lines) == bsent' = bsent \o lines

\* run_backup up to the end of prepare_dest_dir: the names are derived from
\* dest_filename, the directory of an earlier dump is removed (the removal
\* succeeds or not, its error dropped), and a directory still there is an
\* error.
BPrepare ==
    /\ bpc = "prepare"
    /\ \E n \in { prepare_names(dest_filename) }, removed \in BOOLEAN :
          /\ bdirs' = IF removed THEN [bdirs EXCEPT ![n.dirname] = NoDir] ELSE bdirs
          /\ IF bdirs[n.dirname].is_dir /\ ~removed
               THEN /\ BSend(<<"Running backup ...">>)
                    /\ BFailure("Error removing directory")
                    /\ UNCHANGED <<dest_dir, bfilename>>
               ELSE /\ BSend(<<"Running backup ...", "Backup file">>)
                    /\ dest_dir' = <<s_out, n.dirname>>
                    /\ bfilename' = n.filename
                    /\ bpc' = "dump"
                    /\ UNCHANGED bresult
    /\ UNCHANGED <<dest_filename, bfiles, bfiles0, pg_dump, zip_st, complete_sent, brun,
                   used_dirs, overflow_checks, intVars, tocVars, restoreVars, envVars, zipVars,
                   dialogVars, streamVars>>

\* A variant of the pg_dump step that goes on to packaging after a non-zero
\* exit.
BDump_failure_ignored ==
    /\ bpc = "dump"
    /\ \E out \in {"ok", "spawn_err", "exit_err"}, lines \in {<<>>, <<"pg_dump: line">>},
          readable \in BOOLEAN, written \in BOOLEAN :
          /\ pg_dump' = out
          /\ IF out = "spawn_err"
               THEN /\ BSend(<<"Running pg_dump ....">>)
                    /\ BFailure("pg_dump spawn error")
                    /\ UNCHANGED bdirs
               ELSE /\ BSend(<<"Running pg_dump ....">> \o lines)
                    /\ bdirs' = IF out = "ok" \/ written
                                  THEN [bdirs EXCEPT ![dest_dir[2]] = DumpTree(dest_dir, readable)]
                                  ELSE bdirs
                    /\ bpc' = "zip" /\ UNCHANGED bresult
    /\ UNCHANGED <<dest_filename, dest_dir, bfilename, bfiles, bfiles0, zip_st,
                   complete_sent, brun, used_dirs, overflow_checks, intVars, tocVars,
                   restoreVars, envVars, zipVars,
                   dialogVars, streamVars>>

\* run_backup's pg_dump step, run_command: the process does not start, or
\* its output lines are sent and it exits with success (the dump directory
\* written) or with failure (the directory written or not).
BDump ==
    /\ bpc = "dump"
    /\ \E out \in {"ok", "spawn_err", "exit_err"}, lines \in {<<>>, <<"pg_dump: line">>},
          readable \in BOOLEAN, written \in BOOLEAN :
          /\ pg_dump' = out
          /\ IF out = "spawn_err"
               THEN /\ BSend(<<"Running pg_dump ....">>)
                    /\ BFailure("pg_dump spawn error")
                    /\ UNCHANGED bdirs
               ELSE /\ BSend(<<"Running pg_dump ....">> \o lines)
                    /\ bdirs' = IF out = "ok" \/ written
                                  THEN [bdirs EXCEPT ![dest_dir[2]] = DumpTree(dest_dir, readable)]
                                  ELSE bdirs
                    /\ IF out = "ok"
                         THEN bpc' = "zip" /\ UNCHANGED bresult
                         ELSE BFailure("pg_dump process failure")
    /\ UNCHANGED <<dest_filename, dest_dir, bfilename, bfiles, bfiles0, zip_st,
                   complete_sent, brun, used_dirs, overflow_checks, intVars, tocVars,
                   restoreVars, envVars, zipVars,
                   dialogVars, streamVars>>

\* run_backup's packaging step, zip_dest_directory: zip_directory at level
\* 0, then the dump directory is removed (the removal succeeds or not).  A
\* panic of zip_directory ends the thread.
BZip ==
    /\ bpc = "zip"
    /\ \E create_ok \in BOOLEAN, rm_ok \in BOOLEAN :
       \E r \in { zip_directory(bdirs[dest_dir[2]], dest_dir, bfiles[bfilename], 0,
                                create_ok) } :
          /\ zip_st' = r.st
          /\ bfiles' = [bfiles EXCEPT ![bfilename] = r.dst]
          /\ bdirs' = IF r.st = "ok" /\ rm_ok
                        THEN [bdirs EXCEPT ![dest_dir[2]] = NoDir] ELSE bdirs
          /\ IF r.st = "panic" THEN bpc' = "panicked" /\ UNCHANGED bresult
             ELSE IF r.st = "err" \/ ~rm_ok
               THEN BFailure("Error zipping destination directory")
               ELSE /\ bresult' = [done |-> TRUE, error |-> ""]
                    /\ bpc' = "returned"
    /\ BSend(<<"Zipping destination directory ....">> \o
             (IF bpc' = "returned" /\ bresult'.error = ""
                THEN <<"Backup complete">> ELSE <<>>))
    /\ UNCHANGED <<dest_filename, dest_dir, bfilename, bfiles0, pg_dump, complete_sent,
                   brun, used_dirs, overflow_checks, intVars, tocVars, restoreVars,
                   envVars, zipVars,
                   dialogVars, streamVars>>

\* The end of the worker's closure: complete_sender.send(), then the
\* result is returned to the join handle.
BComplete ==
    /\ bpc = "returned"
    /\ complete_sent' = complete_sent + 1
    /\ bpc' = "done"
    /\ UNCHANGED <<dest_filename, dest_dir, bfilename, bdirs, bfiles, bfiles0, bsent,
                   bresult, pg_dump, zip_st, brun, used_dirs, overflow_checks, intVars,
                   tocVars, restoreVars, envVars, zipVars,
                   dialogVars, streamVars>>

\* The dialog is opened again for another backup under the same parent
\* directory, the earlier worker thread having ended.
BPopup ==
    /\ bpc \in {"done", "panicked"}
    /\ brun < MaxBackups
    /\ brun' = brun + 1
    /\ dest_filename' \in DestFilenames
    /\ used_dirs' = used_dirs \cup (IF dest_dir = <<>> THEN {} ELSE {dest_dir})
    /\ dest_dir' = <<>> /\ bfilename' = <<>>
    /\ bfiles0' = bfiles
    /\ bsent' = <<>>
    /\ bresult' = [done |-> FALSE, error |-> ""]
    /\ pg_dump' = "no" /\ zip_st' = "no" /\ complete_sent' = 0
    /\ bpc' = "prepare"
    /\ UNCHANGED <<bdirs, bfiles, overflow_checks, intVars, tocVars, restoreVars,
                   envVars, zipVars,
                   dialogVars, streamVars>>

NextBackup == BPrepare \/ BDump \/ BZip \/ BComplete \/ BPopup

SpecBackup == InitBackup /\ [][NextBackup]_vars

----------------------------------------------------------------------------
(* SpecDialog: a dialog's worker thread and its event loop                 *)

\* The time advances in steps of TickMs up to MaxTicks steps; the worker
\* sends up to MaxMsgs progress values; the system clock is on time or has
\* been set back by SkewMs.
TickMs == 100
MaxTicks == 10
MaxMsgs == 3
SkewMs == 300
\* SystemTime of the time 0, ms since the epoch.
Epoch0 == 1000
MinDurationMs == 1000
\* The error text of a failed result, a line that is no progress value.
ErrorLine == 0
CoalesceMs == 100

\* a - b > lim in u128 without overflow checks: with a < b the difference
\* wraps to 2^128 - (b - a), which is above lim for the times here.
wrapping_diff_exceeds(a, b, lim) == IF a < b THEN TRUE ELSE a - b > lim

\* SyncNoticeValueSender::send_value: the value is queued and a notice is
\* posted to the dialog's thread; notices are handled in the order posted.
send_value(v) ==
    /\ chan' = Append(chan, v)
    /\ events' = Append(events, "progress")

\* SyncNoticeSender::send: a notice is posted to the dialog's thread.
send ==
    /\ events' = Append(events, "complete")
    /\ UNCHANGED chan

InitDialog ==
    /\ wpc = "run" /\ wres = "none" /\ nsent = 0
    /\ now = 0 /\ skew = 0 /\ start = 0 /\ ret_at = -1 /\ sent_at = -1
    /\ complete_count = 0 /\ events = <<>> /\ chan = <<>>
    /\ ui = "open"
    /\ progress_pending = <<>> /\ progress_last_updated = 0
    /\ details = <<>> /\ received = <<>>
    /\ dialog_result = "none" /\ complete_handled = 0
    /\ overflow_checks \in BOOLEAN
    /\ IntIdle /\ TocIdle /\ RestoreIdle /\ EnvIdle /\ ZipIdle /\ BackupIdle /\ StreamIdle

\* Time passes.
Tick ==
    /\ wpc # "idle"
    /\ now < MaxTicks * TickMs
    /\ now' = now + TickMs
    /\ UNCHANGED <<wpc, wres, nsent, skew, start, ret_at, sent_at, complete_count, events,
                   chan, ui, progress_pending, progress_last_updated, details, received,
                   dialog_result, complete_handled, overflow_checks, intVars, tocVars,
                   restoreVars, envVars, zipVars, backupVars, streamVars>>

\* The system clock is set back, or set right again.
SetClock ==
    /\ wpc # "idle"
    /\ skew' \in {0, -SkewMs} \ {skew}
    /\ UNCHANGED <<wpc, wres, nsent, now, start, ret_at, sent_at, complete_count, events,
                   chan, ui, progress_pending, progress_last_updated, details, received,
                   dialog_result, complete_handled, overflow_checks, intVars, tocVars,
                   restoreVars, envVars, zipVars, backupVars, streamVars>>

\* The pipeline sends a progress value.
WProgress ==
    /\ wpc = "run"
    /\ nsent < MaxMsgs
    /\ nsent' = nsent + 1
    /\ send_value(nsent + 1)
    /\ UNCHANGED <<wpc, wres, now, skew, start, ret_at, sent_at, complete_count, ui,
                   progress_pending, progress_last_updated, details, received,
                   dialog_result, complete_handled, overflow_checks, intVars, tocVars,
                   restoreVars, envVars, zipVars, backupVars, streamVars>>

\* A variant of the worker that never sleeps.
WReturn_no_sleep ==
    /\ wpc = "run"
    /\ wres' \in {"ok", "err"}
    /\ ret_at' = now
    /\ IF FALSE
         THEN /\ wpc' = "sleep"
              /\ UNCHANGED <<sent_at, complete_count, events, chan>>
         ELSE /\ send
              /\ complete_count' = complete_count + 1
              /\ sent_at' = now
              /\ wpc' = "ended"
    /\ UNCHANGED <<nsent, now, skew, start, ui, progress_pending, progress_last_updated,
                   details, received, dialog_result, complete_handled, overflow_checks,
                   intVars, tocVars, restoreVars, envVars, zipVars, backupVars, streamVars>>

\* The pipeline returns its result; the worker computes remaining and
\* either goes to sleep or sends the completion notice and ends.
WReturn ==
    /\ wpc = "run"
    /\ wres' \in {"ok", "err"}
    /\ ret_at' = now
    /\ IF MinDurationMs - (now - start) > 0
         THEN /\ wpc' = "sleep"
              /\ UNCHANGED <<sent_at, complete_count, events, chan>>
         ELSE /\ send
              /\ complete_count' = complete_count + 1
              /\ sent_at' = now
              /\ wpc' = "ended"
    /\ UNCHANGED <<nsent, now, skew, start, ui, progress_pending, progress_last_updated,
                   details, received, dialog_result, complete_handled, overflow_checks,
                   intVars, tocVars, restoreVars, envVars, zipVars, backupVars, streamVars>>

\* The sleep of remaining ms is over: the worker sends the completion
\* notice and ends.
WWake ==
    /\ wpc = "sleep"
    /\ now >= ret_at + (MinDurationMs - (ret_at - start))
    /\ send
    /\ complete_count' = complete_count + 1
    /\ sent_at' = now
    /\ wpc' = "ended"
    /\ UNCHANGED <<wres, nsent, now, skew, start, ret_at, ui, progress_pending,
                   progress_last_updated, details, received, dialog_result,
                   complete_handled, overflow_checks, intVars, tocVars, restoreVars,
                   envVars, zipVars, backupVars, streamVars>>

\* The pipeline panics (zip_directory's panic! and unwrap): the worker's
\* closure is unwound.
WPanic ==
    /\ wpc = "run"
    /\ wpc' = "panicked"
    /\ UNCHANGED <<wres, nsent, now, skew, start, ret_at, sent_at, complete_count, events,
                   chan, ui, progress_pending, progress_last_updated, details, received,
                   dialog_result, complete_handled, overflow_checks, intVars, tocVars,
                   restoreVars, envVars, zipVars, backupVars, streamVars>>

\* A variant of on_progress that appends the received value alone.
OnProgress_last_only ==
    /\ ui = "open"
    /\ events # <<>> /\ Head(events) = "progress"
    /\ events' = Tail(events)
    /\ chan' = Tail(chan)
    /\ received' = Append(received, Head(chan))
    /\ \E t \in { Epoch0 + now + skew } :
          IF t < progress_last_updated /\ overflow_checks
            THEN /\ ui' = "panicked"
                 /\ progress_pending' = Append(progress_pending, Head(chan))
                 /\ UNCHANGED <<progress_last_updated, details>>
            ELSE /\ ui' = ui
                 /\ IF wrapping_diff_exceeds(t, progress_last_updated, CoalesceMs)
                      THEN /\ details' = Append(details, Head(chan))
                           /\ progress_pending' = <<>>
                           /\ progress_last_updated' = t
                      ELSE /\ progress_pending' = Append(progress_pending, Head(chan))
                           /\ UNCHANGED <<progress_last_updated, details>>
    /\ UNCHANGED <<wpc, wres, nsent, now, skew, start, ret_at, sent_at, complete_count,
                   dialog_result, complete_handled, overflow_checks, intVars, tocVars,
                   restoreVars, envVars, zipVars, backupVars, streamVars>>

\* on_progress: the value is received and pushed to progress_pending; when
\* more than 100 ms have passed since the last update the pending lines are
\* appended to details_box.  now - progress_last_updated is a u128
\* subtraction: with the system clock behind progress_last_updated it
\* panics with overflow checks and wraps without.
OnProgress ==
    /\ ui = "open"
    /\ events # <<>> /\ Head(events) = "progress"
    /\ events' = Tail(events)
    /\ chan' = Tail(chan)
    /\ received' = Append(received, Head(chan))
    /\ \E t \in { Epoch0 + now + skew } :
          IF t < progress_last_updated /\ overflow_checks
            THEN /\ ui' = "panicked"
                 /\ progress_pending' = Append(progress_pending, Head(chan))
                 /\ UNCHANGED <<progress_last_updated, details>>
            ELSE /\ ui' = ui
                 /\ IF wrapping_diff_exceeds(t, progress_last_updated, CoalesceMs)
                      THEN /\ details' = details \o Append(progress_pending, Head(chan))
                           /\ progress_pending' = <<>>
                           /\ progress_last_updated' = t
                      ELSE /\ progress_pending' = Append(progress_pending, Head(chan))
                           /\ UNCHANGED <<progress_last_updated, details>>
    /\ UNCHANGED <<wpc, wres, nsent, now, skew, start, ret_at, sent_at, complete_count,
                   dialog_result, complete_handled, overflow_checks, intVars, tocVars,
                   restoreVars, envVars, zipVars, backupVars, streamVars>>

\* A variant of on_complete that reports success whatever the result holds.
OnComplete_always_success ==
    /\ ui = "open"
    /\ events # <<>> /\ Head(events) = "complete"
    /\ wpc = "ended"
    /\ events' = Tail(events)
    /\ complete_handled' = complete_handled + 1
    /\ dialog_result' = "success"
    /\ details' = details \o progress_pending \o (IF wres = "ok" THEN <<>> ELSE <<ErrorLine>>)
    /\ progress_pending' = <<>>
    /\ UNCHANGED <<wpc, wres, nsent, now, skew, start, ret_at, sent_at, complete_count,
                   chan, ui, progress_last_updated, received, overflow_checks, intVars,
                   tocVars, restoreVars, envVars, zipVars, backupVars, streamVars>>

\* on_complete: the notice is received, the worker joined; a failure's
\* error is pushed to progress_pending; the pending lines are appended to
\* details_box.
OnComplete ==
    /\ ui = "open"
    /\ events # <<>> /\ Head(events) = "complete"
    /\ wpc = "ended"
    /\ events' = Tail(events)
    /\ complete_handled' = complete_handled + 1
    /\ dialog_result' = IF wres = "ok" THEN "success" ELSE "failure"
    /\ details' = details \o progress_pending \o (IF wres = "ok" THEN <<>> ELSE <<ErrorLine>>)
    /\ progress_pending' = <<>>
    /\ UNCHANGED <<wpc, wres, nsent, now, skew, start, ret_at, sent_at, complete_count,
                   chan, ui, progress_last_updated, received, overflow_checks, intVars,
                   tocVars, restoreVars, envVars, zipVars, backupVars, streamVars>>

\* close: the window is hidden and the dispatch of the thread's events
\* stopped.
Close ==
    /\ ui = "open"
    /\ ui' = "closed"
    /\ UNCHANGED <<wpc, wres, nsent, now, skew, start, ret_at, sent_at, complete_count,
                   events, chan, progress_pending, progress_last_updated, details,
                   received, dialog_result, complete_handled, overflow_checks, intVars,
                   tocVars, restoreVars, envVars, zipVars, backupVars, streamVars>>

NextDialog ==
    \/ Tick \/ SetClock \/ WProgress \/ WReturn \/ WWake \/ WPanic
    \/ OnProgress \/ OnComplete \/ Close

SpecDialog == InitDialog /\ [][NextDialog]_vars

----------------------------------------------------------------------------
(* SpecStream: the tool's output lines on their way to the progress sink   *)

\* The bytes of the tools' output here: "a", CR, LF and a byte no UTF-8
\* text holds; outputs of up to MaxOut bytes.
OutBytes == {97, 13, 10, 255}
MaxOut == 4
RECURSIVE OutputsOf(_)
OutputsOf(n) ==
    IF n = 0 THEN { <<>> }
    ELSE { <<>> } \cup { <<b>> \o t : b \in OutBytes, t \in OutputsOf(n - 1) }

\* BufRead::read_until(b'\n', buf) at position i of s: the bytes up to and
\* with the next "\n", or the rest; [buf, pos].
read_until(s, i) ==
    IF BytesFrom(s, i, 10) = {} THEN [buf |-> SubSeq(s, i, Len(s)), pos |-> Len(s) + 1]
    ELSE The({ [buf |-> SubSeq(s, i, k), pos |-> k + 1] :
               k \in { Min(BytesFrom(s, i, 10)) } })

\* BufRead::read_line's text for the bytes of read_until: without the "\n"
\* and without a "\r" before it.
strip_newline(buf) ==
    IF buf # <<>> /\ buf[Len(buf)] = 10
      THEN IF Len(buf) >= 2 /\ buf[Len(buf) - 1] = 13
             THEN SubSeq(buf, 1, Len(buf) - 2)
             ELSE SubSeq(buf, 1, Len(buf) - 1)
      ELSE buf

InitStream ==
    /\ stream_tool \in {"pg_dump", "pg_restore"}
    /\ stream_out \in OutputsOf(MaxOut)
    /\ stream_pos = 1 /\ stream_sent = <<>> /\ stream_res = "reading"
    /\ overflow_checks \in BOOLEAN
    /\ IntIdle /\ TocIdle /\ RestoreIdle /\ EnvIdle /\ ZipIdle /\ BackupIdle /\ DialogIdle

\* run_command: one iteration of `for line in BufReader::new(&reader)
\* .lines()`; a line that is not UTF-8 is an error and ends the call.
DumpLine ==
    /\ stream_tool = "pg_dump" /\ stream_res = "reading"
    /\ \E r \in { read_until(stream_out, stream_pos) } :
          IF r.buf = <<>>
            THEN /\ stream_res' = "ok"
                 /\ UNCHANGED <<stream_pos, stream_sent>>
            ELSE /\ stream_pos' = r.pos
                 /\ IF InvalidFrom(r.buf, 1) # {}
                      THEN stream_res' = "err" /\ UNCHANGED stream_sent
                      ELSE /\ stream_sent' = Append(stream_sent, strip_newline(r.buf))
                           /\ UNCHANGED stream_res
    /\ UNCHANGED <<stream_tool, stream_out, overflow_checks, intVars, tocVars, restoreVars,
                   envVars, zipVars, backupVars, dialogVars>>

\* run_pg_restore: one iteration of its loop: read_until, the end of the
\* output at length 0, and a buffer of two bytes or more sent without its
\* last two bytes.
RestoreLine ==
    /\ stream_tool = "pg_restore" /\ stream_res = "reading"
    /\ \E r \in { read_until(stream_out, stream_pos) } :
          IF Len(r.buf) = 0
            THEN /\ stream_res' = "ok"
                 /\ UNCHANGED <<stream_pos, stream_sent>>
            ELSE /\ stream_pos' = r.pos
                 /\ stream_sent' =
                      IF Len(r.buf) >= 2
                        THEN Append(stream_sent,
                                    from_utf8_lossy(SubSeq(r.buf, 1, Len(r.buf) - 2)))
                        ELSE stream_sent
                 /\ UNCHANGED stream_res
    /\ UNCHANGED <<stream_tool, stream_out, overflow_checks, intVars, tocVars, restoreVars,
                   envVars, zipVars, backupVars, dialogVars>>

NextStream == DumpLine \/ RestoreLine

SpecStream == InitStream /\ [][NextStream]_vars

----------------------------------------------------------------------------
(* Properties                                                              *)

\* The fields modify_toc_entry assigns, and the optional strings of an entry.
RewrittenFields == {"defn", "copy_stmt", "drop_stmt", "namespace", "owner", "tag"}
QualifyFields == {"defn", "copy_stmt", "drop_stmt"}
OptFields == { EntryFields[k] : k \in 1..Len(EntryFields) } \ IntFields

\* A header that passes for a TOC of the expected format: magic, version
\* 1.14, flags 4/8/3 and the three strings present.  Every timestamp of the
\* inputs is a date and a time of the calendar.
ValidHeader(h) ==
    /\ h.magic = PGDMP
    /\ h.version[1] = 1 /\ h.version[2] = 14
    /\ h.flags = <<4, 8, 3>>
    /\ h.dbname.some /\ h.ver_server.some /\ h.ver_dump.some

\* The names the schema entries of a TOC give for the original database.
SchemaNames(t) ==
    { detect_orig_dbname(t.entries[i], <<>>) : i \in 1..Len(t.entries) } \ { <<>> }

\* The pass has read, modified and written an entry.
EntryDone == tpc \in {"entries", "tables"} /\ idx >= 1 /\ toc_res = "running"

\* C1 (round-trip identity): for a valid TOC, when the new name equals the
\* original name or the TOC has no schema entry, the pass succeeds and the
\* output TOC is byte for byte the input TOC.
C1_RoundTripIdentity ==
    (ValidHeader(toc_in.header) /\ SchemaNames(toc_in) \subseteq {dbname})
      => /\ (tpc \in {"header", "count", "entries"} => toc_res = "running")
         /\ (tpc \notin {"header", "count", "entries"} => toc_dest = toc_src)

\* C2 (no orphaned roles): when a run has ended in failure, no role that the
\* run created still exists.
C2_NoOrphanedRoles ==
    (result.done /\ result.error # "") => (created \cap pg_roles = {})

\* C3 (rollback precision): a role that existed before the run is never
\* dropped by it; the list handed to the rollback holds exactly the roles the
\* run created; DROP is issued only for such roles; and a rollback that
\* completes has dropped every one of them and nothing else.
C3_RollbackPrecision ==
    /\ pre_roles \subseteq pg_roles
    /\ drop_issued \subseteq created
    /\ dropped \subseteq drop_issued
    /\ drop_issued \cap pre_roles = {}
    /\ (rpc \in {"drop_open", "drop", "drop_close"}
          => { roles[i] : i \in 1..Len(roles) } = created)
    /\ ( ( /\ result.done
           /\ Len(progress) > 0
           /\ progress[Len(progress)] = "Global roles cleanup complete" )
          => (dropped = created /\ pg_roles = pre_roles) )

\* X_dbo existed, X_db_owner and X_guest were created, the restore tool
\* failed and the rollback ran to its end.
C3_Witness ==
    /\ result.done
    /\ pg_restore = "err"
    /\ dest_db_name = "acme"
    /\ pre_roles = { <<"acme", "dbo">> }
    /\ created = { <<"acme", "db_owner">>, <<"acme", "guest">> }
    /\ dropped = created
    /\ pg_roles = pre_roles

\* C4 (duplicate destination rejection): when the destination name is in the
\* list of existing databases, the run never gets past
\* check_db_does_not_exist: nothing is extracted, rewritten, created,
\* granted or restored, and the run ends in failure.
C4_DuplicateDestinationRejected ==
    (dest_db_name \in db_list)
      => /\ rpc \in {"check", "done"}
         /\ dir = "none" /\ ~rewritten
         /\ created = {} /\ pg_roles = pre_roles /\ granted = {}
         /\ pg_restore = "no"
         /\ (result.done => result.error # "")

\* check_db_does_not_exist found the destination name and ended the run.
C4_Witness ==
    /\ dest_db_name \in db_list
    /\ result.done
    /\ result.error = "Database with name already exists"
    /\ progress = <<"Running restore into DB">>

\* Texts that hold a derived token of "acme" only as part of a longer
\* identifier: "xacme_dbo", "acme_dbo2.", "xacme_dbo.t1", "acme_dbo2.t1".
SubstringOnly ==
    { Some(s_x \o Acme \o s_dbo), Some(Acme \o s_dbo \o s_2 \o s_dot),
      Some(s_x \o QualRef(Acme)), Some(Acme \o s_dbo \o s_2 \o s_t1) }

\* C5 (no false-positive substring matches): a field whose text holds a
\* derived token of the original name only inside a longer identifier is
\* written unchanged.
C5_NoSubstringFalsePositives ==
    (last_orig = Acme /\ dbname = Bolt)
      => \A f \in RewrittenFields :
            last_in[f] \in SubstringOnly => last_out[f] = last_in[f]

\* C6 (bare and dotted matching): with the original name "acme" known and
\* the new name "bolt", an entry's definition "GRANT acme_guest TO acme_dbo"
\* is written as "GRANT bolt_guest TO bolt_dbo".
C6_BareAndDottedTokens ==
    (last_orig = Acme /\ dbname = Bolt /\ last_in.defn = Some(GrantStmt(Acme)))
      => last_out.defn = Some(GrantStmt(Bolt))

C8_IntCodecSymmetry ==
    /\ ipc # "panic"
    /\ ~ioverflow
    /\ (ipc = "read" => ires = iv)

\* C9 (field presence distinction): an absent and an empty optional string
\* are written as different bytes; the entry read has every field absent,
\* empty or filled as the input has it; the entry written keeps every absent
\* field absent and every empty field empty; and reading back the bytes
\* written gives the entry written.
C9_FieldPresenceDistinction ==
    /\ write_string_opt(RW0, None, overflow_checks).out
         # write_string_opt(RW0, Some(<<>>), overflow_checks).out
    /\ EntryDone =>
         /\ last_in = toc_in.entries[idx]
         /\ \A f \in OptFields \cup {"filename"} :
               /\ last_out[f].some = last_in[f].some
               /\ (last_in[f] = Some(<<>>) => last_out[f] = Some(<<>>))
         /\ \E w \in { write_toc_entry(RW0, last_out, overflow_checks) } :
            \E r \in { read_toc_entry(w.out, RW0, overflow_checks) } :
               /\ w.st = "ok" /\ r.st = "ok"
               /\ r.val = last_out
               /\ r.pos = Len(w.out) + 1

\* An entry with an absent tag and empty statements has been rewritten with
\* the original name known and a different new name.
C9_Witness ==
    /\ EntryDone
    /\ last_orig = Acme /\ dbname = Bolt
    /\ last_in.tag = None /\ last_out.tag = None
    /\ last_in.defn = Some(<<>>) /\ last_out.defn = Some(<<>>)

\* C10 (version validation): a header with the right magic whose major
\* version is not 1 or whose minor version is not 14 is never accepted: the
\* pass stays at the header and ends with the version-check failure.
C10_VersionValidation ==
    ( /\ toc_in.header.magic = PGDMP
      /\ (toc_in.header.version[1] # 1 \/ toc_in.header.version[2] # 14) )
      => /\ tpc = "header"
         /\ (toc_res # "running" => toc_err = "Version check failure")

\* copy_header has returned: with an error, or the pass has moved on.
HeaderDone == tpc # "header" \/ toc_res # "running"

C12_HeaderPassThrough ==
    (ValidHeader(toc_in.header) /\ HeaderDone)
      => /\ tpc # "header"
         /\ (tpc = "count" => toc_dest = EncHeader(toc_in.header))

\* No entry of the TOC has the description "SCHEMA" and a tag ending in "_dbo".
NoSchemaEntry(t) ==
    \A i \in 1..Len(t.entries) : detect_orig_dbname(t.entries[i], <<0>>) = <<0>>

\* A data file as pg_dump writes it: every line ends with a line feed and
\* no line has a carriage return.
LfLines(b) ==
    /\ b = <<>> \/ b[Len(b)] = 10
    /\ BytesFrom(b, 1, 13) = {}

\* C13 (no original name, no change): when the TOC has no schema entry from
\* which the original name is found, every entry is written with the fields
\* it was read with, and the content of every data file (of lines ending
\* with a line feed) is the content it had when the rewrite began.
C13_UndiscoveredNameChangesNothing ==
    NoSchemaEntry(toc_in)
      => /\ (EntryDone => last_out = last_in)
         /\ \A f \in DataFiles :
              (files[SrcPath(f)].some /\ LfLines(files0[SrcPath(f)].bytes))
                => files[SrcPath(f)] = files0[SrcPath(f)]

\* C14 (atomic replacement of the TOC): in every state of the rewrite, after
\* a failure too, toc.dat is the complete original TOC or, once the rewrite
\* has returned Ok, the complete rewritten TOC; and after Ok toc.dat.orig is
\* the original TOC.
C14_AtomicTocReplacement ==
    /\ \/ files[TocPath] = Some(toc_src)
       \/ toc_res = "ok" /\ files[TocPath] = Some(toc_dest)
    /\ toc_res = "ok" => files[TocOrigPath] = Some(toc_src)

\* C15 (cleanup regardless of outcome): a run in which the archive was
\* unpacked has tried to remove the temp directory by the time it ends.
C15_CleanupRegardlessOfOutcome ==
    (result.done /\ dir \in {"present", "removed"}) => remove_dir_all # "no"

\* C16 (best-effort rollback): a rollback that has sent a DROP ROLE has sent
\* one for every role of the created-roles list by the time the run ends.
C16_BestEffortRollback ==
    (result.done /\ drop_issued # {})
      => drop_issued = { roles[i] : i \in 1..Len(roles) }

\* C17 (a rollback error never masks the restore failure): when the restore
\* tool has failed, the result carries the restore tool's error, also when
\* the rollback failed; the rollback's error is a progress line only.
C17_RollbackErrorNeverMasks ==
    (result.done /\ pg_restore = "err")
      => /\ result.error = "pg_restore process failure"
         /\ (dropped # created
               => progress[Len(progress)] = "Error cleaning up global roles")

\* The restore tool failed, the rollback failed on its second DROP ROLE, and
\* the run has ended.
C17_Witness ==
    /\ result.done /\ pg_restore = "err"
    /\ Cardinality(drop_issued) = 2 /\ Cardinality(dropped) = 1
    /\ progress[Len(progress)] = "Error cleaning up global roles"
    /\ result.error = "pg_restore process failure"

\* C18 (cleanup failure is a warning): when the temp directory cannot be
\* removed after the restore tool succeeded, the run ends in success, and
\* the warning line is on the progress stream.
C18_CleanupFailureIsWarning ==
    (result.done /\ remove_dir_all = "err")
      => /\ result.error = ""
         /\ pg_restore = "ok"
         /\ SubSeq(progress, Len(progress) - 1, Len(progress))
              = <<"Warning: error removing tem directory", "Restore complete">>

C18_Witness ==
    /\ result.done /\ remove_dir_all = "err" /\ dir = "present"
    /\ result.error = ""

\* The lines that open the steps of run_restore, in the order of the steps.
StepLines ==
    << "Running restore into DB", "Unzipping file", "Updating DB name",
       "Restoring roles", "Running pg_restore" >>

\* The step-opening lines of the progress stream, in the order sent.
RECURSIVE StepsOpened(_)
StepsOpened(k) ==
    IF k = 0 THEN <<>>
    ELSE IF \E i \in 1..Len(StepLines) : StepLines[i] = progress[k]
      THEN Append(StepsOpened(k - 1), progress[k])
      ELSE StepsOpened(k - 1)

\* C19 (secrets are per process): after any sequence of backup and restore
\* runs, PGPASSWORD is not set in the environment of the application's own
\* process: a run hands the password to the process it spawns only.
C19_PasswordOnlyInChildEnv ==
    ~env.set

\* C20 (step ordering and abort on failure): the steps are opened in the
\* order Checking, Unpacking, Rewriting, Provisioning, Restoring; a step is
\* opened only when every step before it has succeeded; after a failure no
\* later step is started, except the role rollback after a failure of the
\* restore tool; and a run that has ended changes nothing more.
C20_StepOrdering ==
    /\ \E n \in 0..Len(StepLines) : StepsOpened(Len(progress)) = SubSeq(StepLines, 1, n)
    /\ (dir # "none" \/ rpc = "unzip")
          => ~db_exists(db_list, dest_db_name)
    /\ (rewritten \/ rpc = "rewrite")
          => dir \in {"present", "removed"}
    /\ (rpc \in {"roles_open", "role", "grant", "roles_close"}
          \/ role_i > 0 \/ created # {} \/ granted # {})
          => (rewrite_toc = "ok" /\ dir \in {"present", "removed"})
    /\ (pg_restore # "no" \/ rpc = "pg_restore")
          => /\ rewrite_toc = "ok"
             /\ role_i = Len(RoleSuffixes)
             /\ Cardinality(granted) = Len(GrantStmts)
             /\ roles = res
    /\ (drop_issued # {} \/ rpc \in {"drop_open", "drop", "drop_close"})
          => (pg_restore = "err" /\ Len(roles) > 0)
    /\ (remove_dir_all # "no" \/ rpc = "cleanup") => pg_restore = "ok"
    /\ (result.done /\ result.error = "") => remove_dir_all # "no"
    /\ result.done => rpc = "done"
    /\ (rpc = "done") => (result.done /\ ~ENABLED NextRestore)

\* rewrite_toc failed and the run ended without any role, grant or restore.
C20_Witness ==
    /\ result.done /\ result.error = "rewrite error"
    /\ rewrite_toc = "err" /\ dir = "present"
    /\ role_i = 0 /\ created = {} /\ granted = {} /\ pg_restore = "no"
    /\ progress = SubSeq(StepLines, 1, 3)

\* The tags of the entries that declare a role of the database db.
RoleTags(db) ==
    { Some(db \o r) : r \in {s_dbo, s_db_owner, s_guest} }
      \cup { Some(s_SCHEMA_sp \o db \o r) : r \in {s_dbo, s_db_owner, s_guest} }

\* C28 (role-declaration exception): with the original name "acme" known and
\* the new name "bolt", an entry whose tag is "acme_dbo", "acme_db_owner",
\* "acme_guest" or "SCHEMA " followed by one of them has the bare tokens of
\* its definition, copy statement and drop statement rewritten: "GRANT
\* acme_guest TO acme_dbo" is written as "GRANT bolt_guest TO bolt_dbo".
C28_RoleDeclarationException ==
    (last_orig = Acme /\ dbname = Bolt /\ last_in.tag \in RoleTags(Acme))
      => \A f \in QualifyFields :
            last_in[f] = Some(GrantStmt(Acme)) => last_out[f] = Some(GrantStmt(Bolt))

\* C29 (the tag is rewritten last): the decision to qualify the tokens of
\* the definition, copy statement and drop statement is taken on the tag as
\* it was read: an entry read with the tag "acme_dbo", "SCHEMA acme_dbo" or
\* "acme_guest" has the bare tokens of these fields rewritten, an entry read
\* with the tag ".t1" has "acme_dbo.t1" rewritten in them, and the tag
\* itself is written with the new name.
C29_TagRewrittenLast ==
    (last_orig = Acme)
      => /\ \A f \in QualifyFields :
               /\ ( /\ last_in.tag \in RoleTags(Acme)
                    /\ last_in.tag.bytes \notin { Acme \o s_db_owner,
                                                  s_SCHEMA_sp \o Acme \o s_db_owner }
                    /\ last_in[f] = Some(GrantStmt(Acme)) )
                    => last_out[f] = Some(GrantStmt(dbname))
               /\ (last_in.tag = Some(s_t1) /\ last_in[f] = Some(QualRef(Acme)))
                    => last_out[f] = Some(QualRef(dbname))
         /\ \A r \in {s_dbo, s_db_owner, s_guest} :
               last_in.tag = Some(Acme \o r) => last_out.tag = Some(dbname \o r)

\* An entry read with the tag "acme_dbo" and the definition "GRANT acme_guest
\* TO acme_dbo" has been written with the tag "bolt_dbo" and the definition
\* "GRANT bolt_guest TO bolt_dbo".
C29_Witness ==
    /\ EntryDone
    /\ last_orig = Acme /\ dbname = Bolt
    /\ last_in.tag = Some(Acme \o s_dbo) /\ last_out.tag = Some(Bolt \o s_dbo)
    /\ last_in.defn = Some(GrantStmt(Acme)) /\ last_out.defn = Some(GrantStmt(Bolt))

\* C30 (the original name is set once): once the original name is known, no
\* later entry of the pass changes it.
C30_OriginalNameSetOnce ==
    [][orig_dbname # <<>> => orig_dbname' = orig_dbname]_vars

\* C26 (compression level): a call with comp_level 0 that writes an archive
\* writes it with the method Stored; a call with any other comp_level ends
\* with an error result and leaves the file at dst_file as it was.
C26_NonzeroLevelFailsFast ==
    zpc = "done"
      => /\ (comp_level = 0 /\ dst_file # dst_file0) => dst_file.method = "Stored"
         /\ comp_level # 0 => (zip_result = "err" /\ dst_file = dst_file0)

\* The step lines of run_backup, in the order of the code.
BStepLines ==
    <<"Running backup ...", "Backup file", "Running pg_dump ....",
      "Zipping destination directory ....", "Backup complete">>
DumpErrors == {"pg_dump spawn error", "pg_dump process failure"}
IsPrefix(a, b) == Len(a) <= Len(b) /\ a = SubSeq(b, 1, Len(a))
IsStepLine(l) == \E k \in 1..Len(BStepLines) : BStepLines[k] = l

C22_TempDirUnique ==
    /\ dest_dir # <<>> => dest_dir \notin used_dirs
    /\ bresult.error = "Error removing directory" => (dest_dir = <<>> /\ pg_dump = "no")

\* C25: a worker thread that has ended has returned a result (Done or
\* Failed) and has sent the completion signal once.
C25_GuaranteedCompletion ==
    bpc \in {"done", "panicked"} => (bresult.done /\ complete_sent = 1)

\* The progress values among the lines of details_box.
ProgressPart(lines) == SelectSeq(lines, LAMBDA l : l # ErrorLine)

\* C24: the progress lines of the details display followed by the pending
\* ones are exactly the values received, in the order received, each once;
\* the error text of a failure is on the display once, as its last line,
\* after every progress value the worker sent.
C24_CoalescingLosesNothing ==
    /\ ProgressPart(details) \o progress_pending = received
    /\ IsPrefix(ProgressPart(details), received)
    /\ received \o chan = [k \in 1..nsent |-> k]
    /\ (\E k \in 1..Len(details) : details[k] = ErrorLine)
         => /\ dialog_result = "failure"
            /\ details = [k \in 1..nsent |-> k] \o <<ErrorLine>>
    /\ (complete_handled = 1 /\ wres = "err") => details[Len(details)] = ErrorLine

\* The first value is on the display, the second and the third were
\* coalesced and are pending, and the pipeline has returned a failure.
C24_Witness ==
    /\ details = <<1>> /\ progress_pending = <<2, 3>> /\ wres = "err"

\* C23: a worker that has ended has sent the completion notice exactly
\* once, after the pipeline returned its result; the notice is handled at
\* most once, and once it has been handled nothing is pending and every
\* progress value the worker sent is on the display.
C23_CompletionExactlyOnce ==
    /\ wpc \in {"ended", "panicked"} => complete_count = 1
    /\ complete_count <= 1 /\ complete_handled <= complete_count
    /\ complete_count = 1 => (wres # "none" /\ sent_at >= ret_at /\ ret_at >= 0)
    /\ complete_handled = 1
         => /\ progress_pending = <<>>
            /\ ProgressPart(details) = [k \in 1..nsent |-> k]

\* C27: the completion notice is sent no earlier than 1000 ms after the
\* worker started, and a pipeline that took 1000 ms or more has it sent at
\* the time the pipeline returned.
C27_MinimumDuration ==
    complete_count > 0
      => /\ sent_at - start >= MinDurationMs
         /\ ret_at - start >= MinDurationMs => sent_at = ret_at

\* A pipeline that returned before the minimum had its notice sent at the
\* minimum.
C27_Witness ==
    /\ complete_count = 1 /\ ret_at - start < MinDurationMs
    /\ sent_at - start = MinDurationMs

\* The rows of a data file and the fields of a row, as the tool that loads
\* the file reads them.
Rows(b) == LinesFrom(b, 1)
Fields(row) == SplitFrom(row, 1)

\* What C31 asks of the field fin of the original file and the field fout
\* written for it.
FieldRewritten(fin, fout) ==
    IF StartsWithAt(fin, 1, orig_dbname)
      THEN fout = part_replace(fin, orig_dbname, dbname)
      ELSE fout = fin

\* C31: a data file that rewrite_table has replaced has its original
\* content under the .orig name and no .rewritten file left; the new file
\* has the same number of rows, each row the same number of fields, every
\* field that starts with the original name has the name replaced by the
\* new one, and every other field is unchanged.
C31_TableRowsRewritten ==
    \A f \in DataFiles :
      (files[OrigPath(f)].some /\ files[SrcPath(f)].some)
        => /\ files[OrigPath(f)] = files0[SrcPath(f)]
           /\ ~files[DestPath(f)].some
           /\ \E rin \in { Rows(files[OrigPath(f)].bytes) },
                 rout \in { Rows(files[SrcPath(f)].bytes) } :
                 /\ Len(rout) = Len(rin)
                 /\ \A r \in 1..Len(rin) :
                      \E fin \in { Fields(rin[r]) }, fout \in { Fields(rout[r]) } :
                         /\ Len(fout) = Len(fin)
                         /\ \A c \in 1..Len(fin) : FieldRewritten(fin[c], fout[c])

\* The first data file, with fields that start with the original name and
\* a field that holds it elsewhere, has been replaced for a new name.
C31_Witness ==
    /\ orig_dbname = Acme /\ dbname = Bolt
    /\ files[OrigPath(DataFile(1))].some /\ files[SrcPath(DataFile(1))].some
    /\ Len(Rows(files[OrigPath(DataFile(1))].bytes)) = 2
    /\ files[SrcPath(DataFile(1))] # files[OrigPath(DataFile(1))]

\* The first n roles of restore_global_data's loop, in its order.
RolesUpTo(n) == [i \in 1..n |-> rolname(dest_db_name, RoleSuffixes[i])]

\* C32: the list restore_global_data builds holds, in the order db_owner,
\* dbo, guest, exactly the roles of the iterations done that did not exist
\* before the call; GRANT statements are issued in their order and only
\* after the three roles; and with no role dropped since, a second call
\* for the same name creates nothing and returns the empty list.
C32_ProvisionReturnsCreated ==
    /\ res = SelectSeq(RolesUpTo(role_i), LAMBDA r : r \notin pre_roles)
    /\ { res[i] : i \in 1..Len(res) } = created
    /\ granted = 1..Cardinality(granted)
    /\ granted # {} => role_i = Len(RoleSuffixes)
    /\ (role_i = Len(RoleSuffixes) /\ drop_issued = {})
         => provision_roles(pg_roles, dest_db_name, 1, <<>>) = [pg |-> pg_roles, ret |-> <<>>]

\* A call that found one role and created the other two has issued its
\* four GRANT statements.
C32_Witness ==
    /\ role_i = Len(RoleSuffixes) /\ Cardinality(granted) = Len(GrantStmts)
    /\ pre_roles = { rolname(dest_db_name, "dbo") }
    /\ res = << rolname(dest_db_name, "db_owner"), rolname(dest_db_name, "guest") >>

\* The fields of an entry that are no identity fields.
FrameFields ==
    ({ EntryFields[k] : k \in 1..Len(EntryFields) } \cup {"deps", "filename"})
      \ RewrittenFields

\* C33: for every entry, the entry written and the entry that is read back
\* from the bytes written have every field other than definition, copy
\* statement, drop statement, namespace, owner and tag as the entry read
\* had it, the dependency list and the data-file name included.
C33_OnlyIdentityFieldsModified ==
    EntryDone
      => /\ \A f \in FrameFields : last_out[f] = last_in[f]
         /\ \E w \in { write_toc_entry(RW0, last_out, overflow_checks) } :
            \E r \in { read_toc_entry(w.out, RW0, overflow_checks) } :
               /\ w.st = "ok" /\ r.st = "ok"
               /\ \A f \in FrameFields : r.val[f] = last_in[f]

\* An entry whose namespace was rewritten and whose other fields hold the
\* same token of the original name, with two dependencies.
C33_Witness ==
    /\ EntryDone
    /\ last_orig = Acme /\ dbname = Bolt
    /\ last_in.namespace = Some(Acme \o s_dbo) /\ last_out.namespace = Some(Bolt \o s_dbo)
    /\ last_in.tablespace = Some(Acme \o s_dbo) /\ Len(last_in.deps) = 2

\* C34: once the output of the tool has been read to its end, the values
\* sent to the progress sink are the lines of the output, in order, each
\* with its full text and without its terminator ("\r\n", "\n", or none
\* on the last line); stated for outputs that are UTF-8 text.
C34_LineStreaming ==
    (stream_tool # "none" /\ stream_res # "reading" /\ InvalidFrom(stream_out, 1) = {})
      => /\ stream_res = "ok"
         /\ stream_sent = LinesFrom(stream_out, 1)

\* C36: the entries written so far parse back, with the readers of
\* rewrite_toc, to the end of the bytes written, the last of them with
\* exactly the field values the rewrite produced; the TOC of a successful
\* rewrite parses to as many entries as the input has.
C36_RewrittenTocWellFormed ==
    /\ EntryDone
         => \E p \in { ParseToc(toc_dest, idx, overflow_checks) } :
               /\ p.st = "ok" /\ Len(p.entries) = idx
               /\ p.entries[idx] = last_out
               /\ p.pos = Len(toc_dest) + 1
    /\ toc_res = "ok"
         => \E p \in { ParseToc(toc_dest, -1, overflow_checks) } :
               /\ p.st = "ok"
               /\ p.count = Len(toc_in.entries) /\ Len(p.entries) = Len(toc_in.entries)
               /\ p.pos = Len(toc_dest) + 1

\* An entry whose definition, with a two-byte character, became longer
\* by the new name has been written.
C36_Witness ==
    /\ EntryDone
    /\ last_orig = Acme /\ dbname = Bolts
    /\ last_in.defn = Some(s_e_acute \o QualRef(Acme))
    /\ last_out.defn = Some(s_e_acute \o QualRef(Bolts))

\* C35: after a successful rewrite to a new name that differs from the
\* original name, no entry of the output TOC holds a token of the original
\* name the rewrite rules replace: applying the rules to an output entry
\* changes nothing.
C35_EveryEntryRetargeted ==
    (toc_res = "ok" /\ orig_dbname # <<>> /\ dbname # orig_dbname)
      => \E p \in { ParseToc(toc_dest, -1, overflow_checks) } :
            \A i \in 1..Len(p.entries) :
               modify_toc_entry(p.entries[i], orig_dbname, dbname) = p.entries[i]

\* C37: when rewrite_toc has returned an error, toc.dat and every tracked
\* data file have their original content under their original names.
C37_FailedRewriteChangesNothing ==
    toc_res = "err"
      => /\ files[TocPath] = files0[TocPath]
         /\ \A f \in DataFiles : files[SrcPath(f)] = files0[SrcPath(f)]

\* BackupDialogResult.success of the result the caller reads: false by
\* default, set by on_complete.
ResultSuccess == dialog_result = "success"

\* C38: the success flag of the dialog result is true only if the pipeline
\* returned an empty error and on_complete has handled the completion; it
\* is false after a failure and as long as on_complete has not run, the
\* dialog closed while the worker is still running included.
C38_SuccessOnlyAfterCompletion ==
    /\ ResultSuccess => (wres = "ok" /\ wpc = "ended" /\ complete_handled = 1)
    /\ complete_handled = 0 => ~ResultSuccess
    /\ (complete_handled = 1 /\ wres = "err") => dialog_result = "failure"

\* The dialog was closed after the pipeline returned without error and
\* before the worker sent the completion notice.
C38_Witness ==
    /\ ui = "closed" /\ wpc = "sleep" /\ wres = "ok"
    /\ complete_handled = 0 /\ ~ResultSuccess

====
